---- MODULE Spec2Model ----
(***************************************************************************)
(* Model of the client-side stores of the MOBIX travel chat UI:            *)
(*   - ui-chat/js/chat.js        saved chats and the send-message workflow *)
(*   - ui-chat/js/travelnote.js  travel notes and the legacy migration     *)
(* All handlers run on the single UI thread; a handler is one atomic step  *)
(* up to its first await, and each continuation after an await is a step.  *)
(***************************************************************************)
EXTENDS Integers, Sequences, FiniteSets, TLC

\* ------------------------------------------------------------------ bounds
MaxChats == 3       \* chat ids that generateChatId may hand out
MaxSends == 2       \* calls of sendChatMessage with a non-empty message
SeqChats == 3       \* the same two bounds for the one-request-at-a-time runs
SeqSends == 3
MaxNotes == 2       \* note ids that may be handed out
MaxCards == 2       \* calls of addCardToTravelNote
EdNotes == 2        \* note ids handed out while the note editor is in use
EdCards == 1        \* cards added while the note editor is in use
MaxEdits == 2       \* input events on the title and content fields per page load
MaxTime == 3        \* clock readings while the note editor is in use
MaxRemoveTime == 4  \* clock readings in the runs with the remove button
MgrChats == 3       \* chat ids generated by the ChatManager
MgrSends == 2       \* calls of api.sendMessage made by the ChatManager
OptionCards == 2    \* option cards added in SpecOptions
ClickBlocks == 2    \* blocks of a message whose add buttons are clicked
ClassifyCards == 1  \* cards added in the runs over all type/mode combinations
TitleSends == 2     \* requests sent in SpecTitle
TitleChats == 2     \* chat ids generated in SpecTitle
QuotaSends == 2     \* requests sent in SpecQuota
QuotaChats == 2     \* chat ids generated in SpecQuota
ReplySends == 2     \* requests sent in SpecReply
ReplyChats == 2     \* chat ids generated in SpecReply
MaxPieces == 3      \* blocks and stretches of plain text in a message
MaxLines == 2       \* lines in the block of a one-block message
MaxDays == 3        \* value that dayCounter may reach
MaxPlanSteps == 4   \* planner handlers that run per page load

\* ------------------------------------------------------- program constants
TitleMax == 30      \* generateChatTitle keeps at most 30 characters

\* --------------------------------------------------------------- text model
\* A string is a sequence of character codes; Sp is a blank.
Sp == 0
Dot == 46

RECURSIVE TrimLeft(_)
TrimLeft(s) == IF s # <<>> /\ Head(s) = Sp THEN TrimLeft(Tail(s)) ELSE s

RECURSIVE TrimRight(_)
TrimRight(s) ==
  IF s # <<>> /\ s[Len(s)] = Sp THEN TrimRight(SubSeq(s, 1, Len(s) - 1)) ELSE s

\* String.prototype.trim
Trim(s) == TrimRight(TrimLeft(s))

NewChatText == <<78, 101, 119>>                 \* 'New Chat'
ErrorText == <<83, 111, 114, 114, 121>>         \* 'Sorry, there was an error. ...'
FallbackText == <<72, 118, 97, 108, 97>>        \* 'Hvala na poruci!'
ReplyText == <<82>>                             \* some assistant text

\* what the user may have typed into #chatInput when the k-th request is about
\* to be sent: blanks only, or a text that no earlier request carried
RawInputs(k) == { <<Sp>>, <<Sp, k, Sp>> }

\* a text of TitleMax + 1 characters
LongText(k) == [i \in 1..(TitleMax + 1) |-> k]

\* inputs around the title limit: a short text, and a padded text that is one
\* character longer than the limit once trimmed
TitleInputs(k) == { <<k>>, <<Sp>> \o LongText(k) \o <<Sp>> }

\* ------------------------------------------------------------- chat values
NoChat == 0                    \* null
NullArg == -1                  \* the string 'null' built into an onclick

Absent == <<-1>>               \* undefined: the JSON object has no such key
ResponseData ==
  { [reply |-> ReplyText, response |-> Absent, message |-> Absent] }

\* the bodies a server may answer with: each of the three keys is missing,
\* holds the empty string, or holds a text of its own
ReplyShapes ==
  [reply : {Absent, <<>>, <<82>>},
   response : {Absent, <<>>, <<83>>},
   message : {Absent, <<>>, <<84>>}]

VARIABLES
  savedChats,      \* chat.js: savedChats, equal to localStorage mobix_saved_chats
  chatHistory,     \* chat.js: chatHistory, the open transcript
  currentChatId,   \* chat.js: currentChatId
  chatSessionId,   \* chat.js: chatSessionId
  shared,          \* chatHistory is the very array stored in the open chat's record
  chatMessages,    \* the message bubbles in #chatMessages, in order
  typing,          \* number of #typingIndicator elements in #chatMessages
  pending,         \* in-flight sendChatMessage calls with their captured locals
  sent,            \* number of requests issued so far
  nextId,          \* next value generateChatId returns
  now,             \* the clock read by new Date() in chat.js
  deletedIds,      \* history: ids removed by a confirmed deleteChat
  lastOp,          \* history: the handler (and its branch) that ran last
  travelNotes,     \* travelnote.js: travelNotes
  activeNoteId,    \* travelnote.js: activeNoteId
  notesReady,      \* travelnote.js: DOMContentLoaded has run
  storedNotes,     \* localStorage mobix_travel_notes ([] when the key is absent)
  legacyNote,      \* localStorage mobix_travel_note
  nextNoteId,      \* next note id (Date.now() + random suffix)
  nextCardId,      \* next card id (Date.now() + random suffix)
  noteNow,         \* the clock read by new Date() in travelnote.js
  migrations,      \* history: number of notes created by the migration
  noteOp,          \* history: the travel-note handler (and branch) that ran last
  titleValue,      \* travelnote.js: noteTitle.value, the title field of the editor
  contentValue,    \* travelnote.js: noteContent.value, the textarea of the editor
  autoSaveTimer,   \* travelnote.js: autoSaveTimer, the handle kept by the module
  timers,          \* handles of the setTimeout callbacks that have yet to run
  nextTimer,       \* next handle setTimeout returns
  timerNote,       \* history: the note that was open when a handle was handed out
  modal,           \* the confirm modal that is open, if any
  cardText,        \* chat.js: content, the argument of parseCards
  cardPieces,      \* history: the pieces cardText was put together from
  parsedCards,     \* chat.js: cards, the array parseCards returned
  cardOp,          \* history: "text" before the call of parseCards, "parsed" after
  itineraries,     \* planner: itineraries
  storedItineraries, \* localStorage mobix_itineraries ([] when the key is absent)
  currentItineraryId, \* planner: currentItineraryId
  dayCounter,      \* planner: dayCounter
  planFields,      \* the values of the six itinerary inputs of the editor
  dayCards,        \* the .day-card elements of #daysContainer, in order
  planEditorShown, \* #plannerEditor is not hidden
  planModal,       \* the confirm modal opened by deleteItinerary is showing
  nextItinId,      \* next value of 'itin_' + Date.now()
  planSteps,       \* history: number of planner handlers that have run
  planOp,          \* history: the planner handler that ran last
  state_savedChats,   \* state.js: state.savedChats
  state_storedChats,  \* localStorage, the key of the saved chats
  state_chatHistory,  \* state.js: state.chatHistory
  state_activeChatId, \* state.js: state.activeChatId
  state_sessionId,    \* state.js: state.sessionId
  mgrShared,       \* the open chat's messages and state.chatHistory are one array
  mgrPending,      \* ChatManager: the calls of api.sendMessage yet to settle
  mgrSent,         \* number of calls of api.sendMessage so far
  mgrNextId,       \* next chat id (Date.now() + random suffix)
  mgrReady,        \* ChatManager.init has run
  mgrOp            \* history: the ChatManager method (and branch) that ran last

chatVars == <<savedChats, chatHistory, currentChatId, chatSessionId, shared,
              chatMessages, typing, pending, sent, nextId, now, deletedIds,
              lastOp>>

editorVars == <<titleValue, contentValue, autoSaveTimer, timers, nextTimer,
                timerNote, modal>>

noteVars == <<travelNotes, activeNoteId, notesReady, storedNotes, legacyNote,
              nextNoteId, nextCardId, noteNow, migrations, noteOp, editorVars>>

cardVars == <<cardText, cardPieces, parsedCards, cardOp>>

planVars == <<itineraries, storedItineraries, currentItineraryId, dayCounter,
              planFields, dayCards, planEditorShown, planModal, nextItinId,
              planSteps, planOp>>

mgrVars == <<state_savedChats, state_storedChats, state_chatHistory,
             state_activeChatId, state_sessionId, mgrShared, mgrPending, mgrSent,
             mgrNextId, mgrReady, mgrOp>>

pageVars == <<cardVars, planVars, mgrVars>>

vars == <<chatVars, noteVars, pageVars>>

\* ---------------------------------------------------------------- helpers
Last(s) == s[Len(s)]

\* the sequence without its k-th element
RemoveAt(seq, k) == SubSeq(seq, 1, k - 1) \o SubSeq(seq, k + 1, Len(seq))

\* Array.prototype.findIndex on c.id, 1-based; 0 when no record matches
findIndex(chats, id) ==
  IF \E i \in 1..Len(chats) : chats[i].id = id
  THEN CHOOSE i \in 1..Len(chats) :
         /\ chats[i].id = id
         /\ \A j \in 1..(i - 1) : chats[j].id # id
  ELSE 0

\* Array.prototype.filter(c => c.id !== id)
RECURSIVE filterOut(_, _)
filterOut(chats, id) ==
  IF chats = <<>> THEN <<>>
  ELSE IF Head(chats).id = id THEN filterOut(Tail(chats), id)
       ELSE <<Head(chats)>> \o filterOut(Tail(chats), id)

StoredIds(chats) == { chats[i].id : i \in 1..Len(chats) }

\* new Date(): handlers run in separate turns of the event loop, so a handler
\* reads a later time than the last one that read the clock (now)
Clock(t) == { t + 1 }

\* generateChatTitle without the length test
generateChatTitle_whole(firstMessage) ==
  LET title == Trim(firstMessage)
  IN IF title = <<>> THEN NewChatText ELSE title

generateChatTitle(firstMessage) ==
  LET title == Trim(firstMessage)
      cut == IF Len(title) > TitleMax
             THEN SubSeq(title, 1, TitleMax) \o <<Dot, Dot, Dot>>
             ELSE title
  IN IF cut = <<>> THEN NewChatText ELSE cut

\* the operands || skips: undefined and the empty string
falsy(v) == v = Absent \/ v = <<>>

\* the || chain read from the last key to the first
botResponse_messageFirst(data) ==
  IF ~falsy(data.message) THEN data.message
  ELSE IF ~falsy(data.response) THEN data.response
  ELSE IF ~falsy(data.reply) THEN data.reply
  ELSE FallbackText

\* data.reply || data.response || data.message || 'Hvala na poruci!'
botResponse(data) ==
  IF ~falsy(data.reply) THEN data.reply
  ELSE IF ~falsy(data.response) THEN data.response
  ELSE IF ~falsy(data.message) THEN data.message
  ELSE FallbackText

\* chatHistory.push(msg): the push is also seen through the open chat's record
\* when that record holds the same array
pushShared(chats, cur, isShared, msg) ==
  LET idx == findIndex(chats, cur)
  IN IF isShared /\ idx > 0
     THEN [chats EXCEPT ![idx].messages = Append(@, msg)]
     ELSE chats

\* saveCurrentChat without the findIndex: every call adds a record
saveCurrentChat_alwaysUnshift(chats, cur, hist, sess, t) ==
  IF cur = NoChat \/ hist = <<>> THEN chats
  ELSE << [id |-> cur,
           title |-> generateChatTitle(hist[1].content),
           messages |-> hist,
           updatedAt |-> t,
           sessionId |-> sess] >> \o chats

\* saveCurrentChat: the value of savedChats after the call
saveCurrentChat(chats, cur, hist, sess, t) ==
  IF cur = NoChat \/ hist = <<>> THEN chats
  ELSE LET existingIndex == findIndex(chats, cur)
           chatData == [id |-> cur,
                        title |-> IF existingIndex > 0
                                  THEN chats[existingIndex].title
                                  ELSE generateChatTitle(hist[1].content),
                        messages |-> hist,
                        updatedAt |-> t,
                        sessionId |-> sess]
       IN IF existingIndex > 0
          THEN [chats EXCEPT ![existingIndex] = chatData]
          ELSE <<chatData>> \o chats

\* whether saveCurrentChat stored the chatHistory array itself
savedByReference(cur, hist) == cur # NoChat /\ hist # <<>>

\* ------------------------------------------------------------------- Init
\* DOMContentLoaded with an empty localStorage: startNewChat has run once.
InitChat ==
  /\ savedChats = <<>>
  /\ chatHistory = <<>>
  /\ currentChatId = 1
  /\ chatSessionId = 1
  /\ shared = FALSE
  /\ chatMessages = <<>>
  /\ typing = 0
  /\ pending = {}
  /\ sent = 0
  /\ nextId = 2
  /\ now = 0
  /\ deletedIds = {}
  /\ lastOp = "init"

\* ----------------------------------------------------------- chat actions
\* sendChatMessage up to the first await (the fetch is issued at its end)
sendChatMessage(raw) ==
  LET message == Trim(raw)
      userMsg == [role |-> "user", content |-> message]
      hist == Append(chatHistory, userMsg)
  IN IF message = <<>> THEN UNCHANGED vars
     ELSE /\ \E t \in Clock(now) :
               /\ now' = IF savedByReference(currentChatId, hist) THEN t ELSE now
               /\ savedChats' = saveCurrentChat(
                      pushShared(savedChats, currentChatId, shared, userMsg),
                      currentChatId, hist, chatSessionId, t)
          /\ chatHistory' = hist
          /\ shared' = (shared \/ savedByReference(currentChatId, hist))
          /\ chatMessages' = Append(chatMessages, userMsg)
          /\ typing' = typing + 1
          /\ sent' = sent + 1
          /\ pending' = pending \cup
                 { [n |-> sent + 1,
                    targetChatId |-> currentChatId,
                    targetSessionId |-> chatSessionId,
                    message |-> message] }
          /\ lastOp' = "send"
          /\ UNCHANGED <<currentChatId, chatSessionId, nextId, deletedIds>>
          /\ UNCHANGED <<noteVars, pageVars>>

\* hideTypingIndicator that finds no element to remove
hideTypingIndicator_never(n) == n

\* hideTypingIndicator removes one #typingIndicator element when there is one
hideTypingIndicator(n) == IF n > 0 THEN n - 1 ELSE 0

\* newChatEntry that holds the reply only
newChatEntry_replyOnly(r, msg, t) ==
  [id |-> r.targetChatId,
   title |-> generateChatTitle(r.message),
   messages |-> <<msg>>,
   updatedAt |-> t,
   sessionId |-> r.targetSessionId]

\* var newChatEntry = { ... } of the redirect path
newChatEntry(r, msg, t) ==
  [id |-> r.targetChatId,
   title |-> generateChatTitle(r.message),
   messages |-> << [role |-> "user", content |-> r.message], msg >>,
   updatedAt |-> t,
   sessionId |-> r.targetSessionId]

\* replyRedirect with messages.unshift in place of messages.push
replyRedirect_unshift(r, data, t) ==
  LET msg == [role |-> "assistant", content |-> botResponse(data)]
      originalChatIndex == findIndex(savedChats, r.targetChatId)
  IN /\ savedChats' =
          IF originalChatIndex > 0
          THEN [savedChats EXCEPT ![originalChatIndex].messages = <<msg>> \o @,
                                  ![originalChatIndex].updatedAt = t]
          ELSE <<newChatEntry(r, msg, t)>> \o savedChats
     /\ typing' = hideTypingIndicator(typing)
     /\ now' = t
     /\ lastOp' = IF originalChatIndex > 0 THEN "redirect-append"
                                           ELSE "redirect-insert"
     /\ UNCHANGED <<currentChatId, chatSessionId, shared, chatMessages,
                    chatHistory>>

\* sendChatMessage after both awaits, when the user has left the target chat
replyRedirect(r, data, t) ==
  LET msg == [role |-> "assistant", content |-> botResponse(data)]
      originalChatIndex == findIndex(savedChats, r.targetChatId)
      aliasesOpen == /\ shared
                     /\ originalChatIndex > 0
                     /\ originalChatIndex = findIndex(savedChats, currentChatId)
  IN /\ savedChats' =
          IF originalChatIndex > 0
          THEN [savedChats EXCEPT ![originalChatIndex].messages = Append(@, msg),
                                  ![originalChatIndex].updatedAt = t]
          ELSE <<newChatEntry(r, msg, t)>> \o savedChats
     /\ chatHistory' = IF aliasesOpen THEN Append(chatHistory, msg) ELSE chatHistory
     /\ typing' = hideTypingIndicator(typing)
     /\ now' = t
     /\ lastOp' = IF originalChatIndex > 0 THEN "redirect-append"
                                           ELSE "redirect-insert"
     /\ UNCHANGED <<currentChatId, chatSessionId, shared, chatMessages>>

\* sendChatMessage after both awaits, when the target chat is still open
replyNormal(r, data, t) ==
  LET msg == [role |-> "assistant", content |-> botResponse(data)]
      hist == Append(chatHistory, msg)
  IN /\ typing' = hideTypingIndicator(typing)
     /\ chatMessages' = Append(chatMessages, msg)
     /\ chatHistory' = hist
     /\ savedChats' = saveCurrentChat(
            pushShared(savedChats, currentChatId, shared, msg),
            currentChatId, hist, chatSessionId, t)
     /\ shared' = (shared \/ savedByReference(currentChatId, hist))
     /\ now' = IF savedByReference(currentChatId, hist) THEN t ELSE now
     /\ lastOp' = "reply"
     /\ UNCHANGED <<currentChatId, chatSessionId>>

\* userSwitched without the comparison: every reply goes to the open chat
userSwitched_never(r) == FALSE

\* if (currentChatId !== targetChatId) in the try block
userSwitched(r) == currentChatId # r.targetChatId

\* the response of the call r arrived and parsed
replyArrives(r, data) ==
  /\ r \in pending
  /\ pending' = pending \ {r}
  /\ \E t \in Clock(now) :
       IF userSwitched(r) THEN replyRedirect(r, data, t)
                          ELSE replyNormal(r, data, t)
  /\ UNCHANGED <<sent, nextId, deletedIds>>
  /\ UNCHANGED <<noteVars, pageVars>>

\* errorShown without the comparison: every failure is reported
errorShown_always(r) == TRUE

\* if (currentChatId === targetChatId) in the catch block
errorShown(r) == currentChatId = r.targetChatId

\* a catch block that also pushes the error message to chatHistory
errorHistory_pushes(hist) ==
  Append(hist, [role |-> "assistant", content |-> ErrorText])

\* the catch block calls addChatMessage only: chatHistory gets no push
errorHistory(hist) == hist

\* fetch or response.json() of the call r rejected: the catch block
replyFails(r) ==
  /\ r \in pending
  /\ pending' = pending \ {r}
  /\ typing' = hideTypingIndicator(typing)
  /\ chatMessages' =
        IF errorShown(r)
        THEN Append(chatMessages, [role |-> "assistant", content |-> ErrorText])
        ELSE chatMessages
  /\ lastOp' = IF errorShown(r) THEN "error-shown" ELSE "error-hidden"
  /\ chatHistory' = IF errorShown(r) THEN errorHistory(chatHistory) ELSE chatHistory
  /\ UNCHANGED <<savedChats, currentChatId, chatSessionId, shared,
                 sent, nextId, now, deletedIds>>
  /\ UNCHANGED <<noteVars, pageVars>>

\* sendChatMessage when localStorage.setItem throws in the saveCurrentChat of
\* line 484: the call is outside the try block, so the function ends there,
\* before showTypingIndicator and fetch; savedChats is the array in memory,
\* which saveCurrentChat changed before the write
sendChatMessageThrows(raw) ==
  LET message == Trim(raw)
      userMsg == [role |-> "user", content |-> message]
      hist == Append(chatHistory, userMsg)
  IN /\ message # <<>>
     /\ savedByReference(currentChatId, hist)
     /\ \E t \in Clock(now) :
          /\ now' = t
          /\ savedChats' = saveCurrentChat(
                 pushShared(savedChats, currentChatId, shared, userMsg),
                 currentChatId, hist, chatSessionId, t)
     /\ chatHistory' = hist
     /\ shared' = TRUE
     /\ chatMessages' = Append(chatMessages, userMsg)
     /\ lastOp' = "send-threw"
     /\ UNCHANGED <<typing, sent, pending, currentChatId, chatSessionId, nextId,
                    deletedIds>>
     /\ UNCHANGED <<noteVars, pageVars>>

\* the response of the call r arrived and parsed, and the localStorage.setItem
\* that follows throws (line 532, or line 348 called from line 547): both are
\* inside the try block, so the catch block runs
replyArrivesThrows(r, data) ==
  LET msg == [role |-> "assistant", content |-> botResponse(data)]
      hist == Append(chatHistory, msg)
      originalChatIndex == findIndex(savedChats, r.targetChatId)
  IN /\ r \in pending
     /\ pending' = pending \ {r}
     /\ \E t \in Clock(now) :
          IF userSwitched(r)
          THEN /\ savedChats' =
                    IF originalChatIndex > 0
                    THEN [savedChats EXCEPT
                            ![originalChatIndex].messages = Append(@, msg),
                            ![originalChatIndex].updatedAt = t]
                    ELSE <<newChatEntry(r, msg, t)>> \o savedChats
               /\ typing' = hideTypingIndicator(typing)
               /\ now' = t
               /\ lastOp' = "redirect-threw"
               /\ UNCHANGED <<chatHistory, chatMessages, shared>>
          ELSE /\ savedByReference(currentChatId, hist)
               /\ savedChats' = saveCurrentChat(
                      pushShared(savedChats, currentChatId, shared, msg),
                      currentChatId, hist, chatSessionId, t)
               /\ chatHistory' = hist
               /\ shared' = TRUE
               /\ chatMessages' =
                    IF errorShown(r)
                    THEN chatMessages \o
                           << msg, [role |-> "assistant", content |-> ErrorText] >>
                    ELSE Append(chatMessages, msg)
               /\ typing' = hideTypingIndicator(hideTypingIndicator(typing))
               /\ now' = t
               /\ lastOp' = "reply-threw"
     /\ UNCHANGED <<currentChatId, chatSessionId, sent, nextId, deletedIds>>
     /\ UNCHANGED <<noteVars, pageVars>>

\* loadChat that leaves chatSessionId as it is
sessionOf_kept(chat, chatId) == chatSessionId

\* chat.sessionId || chatId
sessionOf(chat, chatId) ==
  IF chat.sessionId # NoChat THEN chat.sessionId ELSE chatId

\* the assignments and the re-rendering of loadChat for a chat found in chats
loadChatState(chats, chatId) ==
  LET chat == chats[findIndex(chats, chatId)]
  IN /\ currentChatId' = chatId
     /\ chatSessionId' = sessionOf(chat, chatId)
     /\ chatHistory' = chat.messages
     /\ shared' = FALSE
     /\ chatMessages' = chat.messages
     /\ typing' = 0

\* a click on an entry of the history list
loadChat(chatId) ==
  /\ findIndex(savedChats, chatId) > 0
  /\ loadChatState(savedChats, chatId)
  /\ lastOp' = "load"
  /\ UNCHANGED <<savedChats, pending, sent, nextId, now, deletedIds>>
  /\ UNCHANGED <<noteVars, pageVars>>

\* the chat that deleteChat opens after the open chat was deleted
fallbackChat(chats) == chats[1].id

\* window.MOBIX.deleteChat once the confirm modal resolved; id is the id of the
\* entry whose delete button was clicked, chatId what its onclick passes
deleteChat(id, confirmed) ==
  LET chatId == IF id = NoChat THEN NullArg ELSE id
      remaining == filterOut(savedChats, chatId)
  IN /\ findIndex(savedChats, id) > 0
     /\ IF ~confirmed THEN UNCHANGED vars
        ELSE /\ savedChats' = remaining
             /\ deletedIds' = deletedIds \cup
                                (StoredIds(savedChats) \ StoredIds(remaining))
             /\ IF currentChatId = chatId
                THEN IF Len(remaining) > 0
                     THEN loadChatState(remaining, fallbackChat(remaining))
                     ELSE /\ currentChatId' = NoChat
                          /\ chatHistory' = <<>>
                          /\ chatSessionId' = NoChat
                          /\ shared' = FALSE
                          /\ chatMessages' = <<>>
                          /\ typing' = 0
                ELSE UNCHANGED <<currentChatId, chatHistory, chatSessionId, shared,
                                 chatMessages, typing>>
             /\ lastOp' = "delete"
             /\ UNCHANGED <<pending, sent, nextId, now>>
             /\ UNCHANGED <<noteVars, pageVars>>

\* savedChats after startNewChat
savedAfterNewChat(chats, cur, hist, sess, t) ==
  IF cur # NoChat /\ hist # <<>> /\ findIndex(chats, cur) > 0
  THEN saveCurrentChat(chats, cur, hist, sess, t)
  ELSE chats

\* startNewChat that writes the new, empty chat into the store at once
startNewChat_persistsDraft ==
  /\ \E t \in Clock(now) :
       /\ savedChats' =
            << [id |-> nextId, title |-> NewChatText, messages |-> <<>>,
                updatedAt |-> t, sessionId |-> nextId] >>
            \o savedAfterNewChat(savedChats, currentChatId, chatHistory,
                                 chatSessionId, t)
       /\ now' = t
  /\ currentChatId' = nextId
  /\ chatSessionId' = nextId
  /\ nextId' = nextId + 1
  /\ chatHistory' = <<>>
  /\ shared' = FALSE
  /\ chatMessages' = <<>>
  /\ typing' = 0
  /\ lastOp' = "new"
  /\ UNCHANGED <<pending, sent, deletedIds>>
  /\ UNCHANGED <<noteVars, pageVars>>

startNewChat ==
  /\ \E t \in Clock(now) :
       /\ savedChats' = savedAfterNewChat(savedChats, currentChatId, chatHistory,
                                          chatSessionId, t)
       /\ now' = IF savedChats' # savedChats THEN t ELSE now
  /\ currentChatId' = nextId
  /\ chatSessionId' = nextId
  /\ nextId' = nextId + 1
  /\ chatHistory' = <<>>
  /\ shared' = FALSE
  /\ chatMessages' = <<>>
  /\ typing' = 0
  /\ lastOp' = "new"
  /\ UNCHANGED <<pending, sent, deletedIds>>
  /\ UNCHANGED <<noteVars, pageVars>>

\* ------------------------------------------------------------ travel notes
NoNote == 0                    \* null
NoTimer == 0                   \* null

\* a JSON array field of the legacy document: missing, or present with items
NoArray == [present |-> FALSE, items |-> <<>>]
Array(items) == [present |-> TRUE, items |-> items]

\* an item as the planner wrote it into the legacy document
LegacyItem(k) ==
  [id |-> k, title |-> "item", subtitle |-> "", price |-> "", image_url |-> "",
   addedAt |-> 0]

\* a legacy item that already carries a category field
TaggedLegacyItem(k) ==
  [id |-> k, title |-> "item", subtitle |-> "", price |-> "", image_url |-> "",
   addedAt |-> 0, category |-> "old"]

LegacyDoc(kind, t, h, r, a) ==
  [kind |-> kind, transports |-> t, hotels |-> h, restaurants |-> r,
   activitys |-> a]

\* what localStorage may hold under mobix_travel_note when the page loads
LegacyDocs ==
  { LegacyDoc("absent", NoArray, NoArray, NoArray, NoArray),
    LegacyDoc("malformed", NoArray, NoArray, NoArray, NoArray),
    LegacyDoc("doc", NoArray, NoArray, NoArray, NoArray),
    LegacyDoc("doc", Array(<<>>), Array(<<>>), Array(<<>>), Array(<<>>)),
    LegacyDoc("doc", Array(<<>>), Array(<<LegacyItem(1)>>), Array(<<>>), Array(<<>>)),
    LegacyDoc("doc", Array(<<LegacyItem(1)>>), NoArray, Array(<<LegacyItem(2)>>),
              Array(<<LegacyItem(3), TaggedLegacyItem(4)>>)) }

\* the record handed to addCardToTravelNote; "" is an absent field
NoData ==
  [type |-> "", mode |-> "", name |-> "", title |-> "", route |-> "",
   address |-> "", city |-> "", airline |-> "", details |-> "",
   description |-> "", price |-> "", rating |-> "", image_url |-> "",
   photo |-> "", image |-> "", link |-> "", url |-> ""]

CardInputs ==
  { [NoData EXCEPT !.type = "hotel", !.name = "Ritz", !.city = "Paris"],
    [NoData EXCEPT !.mode = "train", !.route = "A-B"] }

\* a || b for strings
Or(a, b) == IF a # "" THEN a ELSE b

\* { ...item, category: category }
spreadWithCategory(item, category) ==
  [f \in (DOMAIN item) \cup {"category"} |->
     IF f = "category" THEN category ELSE item[f]]

\* migratedCategory without the replace
migratedCategory_asIs(category) == category

\* category.replace('activitys', 'activities')
migratedCategory(category) ==
  IF category = "activitys" THEN "activities" ELSE category

\* the cards pushed by one round of the forEach over the legacy categories
cardsOfCategory(oldData, category) ==
  IF oldData[category].present /\ Len(oldData[category].items) > 0
  THEN [i \in 1..Len(oldData[category].items) |->
          spreadWithCategory(oldData[category].items[i],
                             migratedCategory(category))]
  ELSE <<>>

migratedCards(oldData) ==
  cardsOfCategory(oldData, "transports") \o cardsOfCategory(oldData, "hotels")
    \o cardsOfCategory(oldData, "restaurants")
    \o cardsOfCategory(oldData, "activitys")

\* shouldMigrate without the test for an empty store
shouldMigrate_always(oldFormat, notes) == oldFormat.kind # "absent"

\* shouldMigrate that parses the legacy document before it looks at the store
shouldMigrate_parsesFirst(oldFormat, notes) ==
  \/ oldFormat.kind = "malformed"
  \/ oldFormat.kind # "absent" /\ Len(notes) = 0

\* if (oldFormat && travelNotes.length === 0)
shouldMigrate(oldFormat, notes) == oldFormat.kind # "absent" /\ Len(notes) = 0

\* if (oldData.transports || oldData.hotels || oldData.restaurants || oldData.activitys)
hasLegacyArrays(oldData) ==
  \/ oldData.transports.present
  \/ oldData.hotels.present
  \/ oldData.restaurants.present
  \/ oldData.activitys.present

newNote(id, title, cards, t) ==
  [id |-> id, title |-> title, content |-> "", cards |-> cards,
   createdAt |-> t, updatedAt |-> t]

\* Array.prototype.find on n.id, as a 1-based index; 0 when no note matches
findNote(notes, id) ==
  IF \E i \in 1..Len(notes) : notes[i].id = id
  THEN CHOOSE i \in 1..Len(notes) :
         /\ notes[i].id = id
         /\ \A j \in 1..(i - 1) : notes[j].id # id
  ELSE 0

\* Array.prototype.filter(n => n.id !== id)
RECURSIVE filterNotes(_, _)
filterNotes(notes, id) ==
  IF notes = <<>> THEN <<>>
  ELSE IF Head(notes).id = id THEN filterNotes(Tail(notes), id)
       ELSE <<Head(notes)>> \o filterNotes(Tail(notes), id)

NoteIds(notes) == { notes[i].id : i \in 1..Len(notes) }

\* the module state before DOMContentLoaded, with what an earlier version of
\* the application left in localStorage
InitNotes ==
  /\ travelNotes = <<>>
  /\ activeNoteId = NoNote
  /\ notesReady = FALSE
  /\ storedNotes = <<>>
  /\ legacyNote \in LegacyDocs
  /\ nextNoteId = 1
  /\ nextCardId = 1
  /\ noteNow = 0
  /\ migrations = 0
  /\ noteOp = "init"
  /\ titleValue = ""
  /\ contentValue = ""
  /\ autoSaveTimer = NoTimer
  /\ timers = {}
  /\ nextTimer = 1
  /\ timerNote = <<>>
  /\ modal = "none"

\* --------------------------------------------------- travel-note actions
\* a page load: the module starts from its initial state and DOMContentLoaded
\* calls loadNotes
loadNotes ==
  LET parsed == storedNotes
      oldData == legacyNote
      cards == migratedCards(oldData)
      migrates == /\ shouldMigrate(legacyNote, parsed)
                  /\ oldData.kind = "doc"
                  /\ hasLegacyArrays(oldData)
                  /\ Len(cards) > 0
  IN /\ notesReady' = TRUE
     /\ activeNoteId' = NoNote
     /\ IF migrates
        THEN /\ nextNoteId <= MaxNotes
             /\ \E t \in Clock(noteNow) :
                  /\ noteNow' = t
                  /\ travelNotes' =
                       Append(parsed, newNote(nextNoteId, "My Travel Items", cards, t))
             /\ storedNotes' = travelNotes'
             /\ nextNoteId' = nextNoteId + 1
             /\ migrations' = migrations + 1
             /\ noteOp' = "load-migrated"
        ELSE /\ travelNotes' =
                  IF shouldMigrate(legacyNote, parsed) /\ oldData.kind = "malformed"
                  THEN <<>>          \* JSON.parse threw: the catch block
                  ELSE parsed
             /\ noteOp' = "load-plain"
             /\ UNCHANGED <<storedNotes, nextNoteId, noteNow, migrations>>
     /\ titleValue' = ""
     /\ contentValue' = ""
     /\ autoSaveTimer' = NoTimer
     /\ timers' = {}
     /\ nextTimer' = 1
     /\ timerNote' = <<>>
     /\ modal' = "none"
     /\ UNCHANGED <<legacyNote, nextCardId>>
     /\ UNCHANGED <<chatVars, pageVars>>

\* createNewNote that drops the initial card
createNewNote_noCard(notes, id, initialTitle, initialCards, t) ==
  <<newNote(id, Or(initialTitle, "New Travel Note"), <<>>, t)>> \o notes

\* createNewNote(initialTitle, initialCard): travelNotes after the unshift
createNewNote(notes, id, initialTitle, initialCards, t) ==
  <<newNote(id, Or(initialTitle, "New Travel Note"), initialCards, t)>> \o notes

\* a click on the new-note button
newNoteClicked ==
  /\ notesReady
  /\ nextNoteId <= MaxNotes
  /\ \E t \in Clock(noteNow) :
       /\ noteNow' = t
       /\ travelNotes' = createNewNote(travelNotes, nextNoteId, "", <<>>, t)
  /\ storedNotes' = travelNotes'
  /\ activeNoteId' = nextNoteId
  /\ nextNoteId' = nextNoteId + 1
  /\ noteOp' = "create"
  /\ titleValue' = travelNotes'[1].title
  /\ contentValue' = travelNotes'[1].content
  /\ UNCHANGED <<notesReady, legacyNote, nextCardId, migrations>>
  /\ UNCHANGED <<autoSaveTimer, timers, nextTimer, timerNote, modal>>
  /\ UNCHANGED <<chatVars, pageVars>>

\* openNote that leaves the fields of the editor as they are
fieldOnOpen_kept(stored, field) == field

\* openNote: noteTitle.value = note.title, noteContent.value = note.content
fieldOnOpen(stored, field) == stored

openNote(noteId) ==
  /\ notesReady
  /\ findNote(travelNotes, noteId) > 0
  /\ activeNoteId' = noteId
  /\ titleValue' =
       fieldOnOpen(travelNotes[findNote(travelNotes, noteId)].title, titleValue)
  /\ contentValue' =
       fieldOnOpen(travelNotes[findNote(travelNotes, noteId)].content,
                   contentValue)
  /\ noteOp' = "open"
  /\ UNCHANGED <<travelNotes, notesReady, storedNotes, legacyNote, nextNoteId,
                 nextCardId, noteNow, migrations>>
  /\ UNCHANGED <<autoSaveTimer, timers, nextTimer, timerNote, modal>>
  /\ UNCHANGED <<chatVars, pageVars>>

\* deleteNote that leaves activeNoteId as it is
activeAfterDelete_kept(active, noteId) == active

\* if (activeNoteId === noteId) activeNoteId = null
activeAfterDelete(active, noteId) == IF active = noteId THEN NoNote ELSE active

\* deleteNote once the confirm modal resolved
deleteNote(noteId, confirmed) ==
  /\ notesReady
  /\ findNote(travelNotes, noteId) > 0
  /\ IF ~confirmed THEN UNCHANGED vars
     ELSE /\ travelNotes' = filterNotes(travelNotes, noteId)
          /\ storedNotes' = travelNotes'
          /\ activeNoteId' = activeAfterDelete(activeNoteId, noteId)
          /\ noteOp' = "delete"
          /\ UNCHANGED <<notesReady, legacyNote, nextNoteId, nextCardId, noteNow,
                         migrations>>
          /\ UNCHANGED editorVars
          /\ UNCHANGED <<chatVars, pageVars>>

\* classify that does not know the mode 'train'
classify_noTrain(cardData) ==
  IF cardData.type = "transport"
     \/ cardData.mode \in {"plane", "car", "bus"}
  THEN [category |-> "transports", cardType |-> Or(cardData.mode, "plane")]
  ELSE IF cardData.type = "hotel"
  THEN [category |-> "hotels", cardType |-> "hotel"]
  ELSE IF cardData.type = "restaurant"
  THEN [category |-> "restaurants", cardType |-> "restaurant"]
  ELSE [category |-> "activities", cardType |-> "activity"]

\* classify that looks at the type before it looks at the mode
classify_typeFirst(cardData) ==
  IF cardData.type = "hotel"
  THEN [category |-> "hotels", cardType |-> "hotel"]
  ELSE IF cardData.type = "restaurant"
  THEN [category |-> "restaurants", cardType |-> "restaurant"]
  ELSE IF cardData.type = "transport"
          \/ cardData.mode \in {"plane", "car", "bus", "train"}
  THEN [category |-> "transports", cardType |-> Or(cardData.mode, "plane")]
  ELSE [category |-> "activities", cardType |-> "activity"]

\* the category / cardType decision of addCardToTravelNote
classify(cardData) ==
  IF cardData.type = "transport"
     \/ cardData.mode \in {"plane", "car", "bus", "train"}
  THEN [category |-> "transports", cardType |-> Or(cardData.mode, "plane")]
  ELSE IF cardData.type = "hotel"
  THEN [category |-> "hotels", cardType |-> "hotel"]
  ELSE IF cardData.type = "restaurant"
  THEN [category |-> "restaurants", cardType |-> "restaurant"]
  ELSE [category |-> "activities", cardType |-> "activity"]

\* const cardItem = { ... }
cardItem(cardData, id, t) ==
  [id |-> id,
   title |-> Or(cardData.name, Or(cardData.title, Or(cardData.route, "Item"))),
   subtitle |-> Or(cardData.address, Or(cardData.city, cardData.airline)),
   details |-> Or(cardData.details, cardData.description),
   price |-> cardData.price,
   rating |-> cardData.rating,
   image_url |-> Or(cardData.image_url, Or(cardData.photo, cardData.image)),
   link |-> Or(cardData.link, cardData.url),
   category |-> classify(cardData).category,
   cardType |-> classify(cardData).cardType,
   data |-> cardData,
   addedAt |-> t]

\* const noteTitle = cardData.city ? 'Trip to ' + cardData.city : 'My Travel Note'
noteTitleFor(cardData) ==
  IF cardData.city # "" THEN "Trip to " \o cardData.city ELSE "My Travel Note"

\* pushCard that puts the card in front
pushCard_front(cards, card) == <<card>> \o cards

\* pushCard that skips a record the note already holds
pushCard_dedup(cards, card) ==
  IF \E i \in 1..Len(cards) : cards[i].data = card.data
  THEN cards ELSE Append(cards, card)

\* note.cards.push(cardItem)
pushCard(cards, card) == Append(cards, card)

addCardToTravelNote(cardData) ==
  /\ notesReady
  /\ nextCardId <= MaxCards
  /\ \E t \in Clock(noteNow) :
       LET card == cardItem(cardData, nextCardId, t)
           idx == findNote(travelNotes, activeNoteId)
           target == IF idx > 0 THEN idx ELSE 1
       IN /\ noteNow' = t
          /\ IF Len(travelNotes) = 0 \/ activeNoteId = NoNote
             THEN /\ nextNoteId <= MaxNotes
                  /\ travelNotes' =
                       createNewNote(travelNotes, nextNoteId,
                                     noteTitleFor(cardData),
                                     <<card>>, t)
                  /\ activeNoteId' = nextNoteId
                  /\ nextNoteId' = nextNoteId + 1
                  /\ titleValue' = travelNotes'[1].title
                  /\ contentValue' = travelNotes'[1].content
                  /\ noteOp' = "add-new"
             ELSE /\ travelNotes' =
                       [travelNotes EXCEPT ![target].cards = pushCard(@, card),
                                           ![target].updatedAt = t]
                  /\ noteOp' = IF idx > 0 THEN "add-active" ELSE "add-first"
                  /\ UNCHANGED <<activeNoteId, nextNoteId, titleValue,
                                 contentValue>>
  /\ storedNotes' = travelNotes'
  /\ nextCardId' = nextCardId + 1
  /\ UNCHANGED <<notesReady, legacyNote, migrations>>
  /\ UNCHANGED <<autoSaveTimer, timers, nextTimer, timerNote, modal>>
  /\ UNCHANGED <<chatVars, pageVars>>

\* the option cards of the planner: category is the argument the add button
\* passes, kind is the option's own type, the others are the texts of the
\* card's elements ("" for an element the card does not have)
PlannerOptions ==
  { [category |-> "transport", kind |-> kind, title |-> "A-B",
     subtitle |-> subtitle, price |-> "$120"] :
      kind \in {"flight", "bus", "train"}, subtitle \in {"", "Rome"} }
  \cup
  { [category |-> category, kind |-> "", title |-> "Ritz",
     subtitle |-> subtitle, price |-> ""] :
      category \in {"hotel", "restaurant", "activity", "attraction"},
      subtitle \in {"", "Rome"} }

\* price.replace(/[€$]/g, '').trim(), for the texts of PlannerOptions
stripCurrency(price) == IF price = "$120" THEN "120" ELSE price

\* a card type taken from the option's own type
optionCardType_ownType(opt) ==
  IF opt.category = "transport"
  THEN (IF opt.kind = "flight" THEN "plane" ELSE opt.kind)
  ELSE IF opt.category = "hotel" THEN "hotel"
  ELSE IF opt.category = "restaurant" THEN "restaurant"
  ELSE "activity"

\* var cardType = 'activity'; if (category === 'transport') cardType = 'plane'; ...
optionCardType(opt) ==
  IF opt.category = "transport" THEN "plane"
  ELSE IF opt.category = "hotel" THEN "hotel"
  ELSE IF opt.category = "restaurant" THEN "restaurant"
  ELSE "activity"

\* var cardData = { type: category, mode: cardType, ... }
optionCardData(opt) ==
  [NoData EXCEPT !.type = opt.category,
                 !.mode = optionCardType(opt),
                 !.name = opt.title,
                 !.title = opt.title,
                 !.address = opt.subtitle,
                 !.city = opt.subtitle,
                 !.price = stripCurrency(opt.price)]

\* window.MOBIX.addToTravelNote(id, category, btn), the add button of an
\* option card, window.MOBIX.addCardToTravelNote being defined
addToTravelNote(opt) == addCardToTravelNote(optionCardData(opt))

\* the ids of the cards of all notes
CardIdsOf(notes) ==
  UNION { { notes[i].cards[k].id : k \in 1..Len(notes[i].cards) } :
          i \in 1..Len(notes) }

\* a filter that drops the last card, whatever its id
remainingCards_pop(cards, cardId) ==
  IF cards = <<>> THEN cards ELSE SubSeq(cards, 1, Len(cards) - 1)

\* note.cards.filter(function(c) { return c.id !== cardId; })
remainingCards(cards, cardId) ==
  SelectSeq(cards, LAMBDA c : c.id # cardId)

\* window.MOBIX.removeCardFromNote(cardId), the remove button of a card
removeCardFromNote(cardId) ==
  LET idx == findNote(travelNotes, activeNoteId)
  IN /\ notesReady
     /\ IF activeNoteId = NoNote \/ idx = 0
        THEN /\ noteOp' = "remove-none"
             /\ UNCHANGED <<travelNotes, storedNotes, noteNow>>
        ELSE \E t \in Clock(noteNow) :
               /\ noteNow' = t
               /\ travelNotes' =
                    [travelNotes EXCEPT
                       ![idx].cards = remainingCards(@, cardId),
                       ![idx].updatedAt = t]
               /\ storedNotes' = travelNotes'
               /\ noteOp' = "remove"
     /\ UNCHANGED <<activeNoteId, notesReady, legacyNote, nextNoteId, nextCardId,
                    migrations>>
     /\ UNCHANGED editorVars
     /\ UNCHANGED <<chatVars, pageVars>>

\* ------------------------------------------------------- the note editor
\* what the user may type into the title field and into the textarea
EditTitles == { "", "T" }
EditContents == { "c1", "c2" }

\* the editor is shown while a note is open (openNote shows it, deleteNote of
\* the open note hides it)
editorShown == notesReady /\ activeNoteId # NoNote /\ modal = "none"

\* clearTimeout that leaves the callback scheduled
clearTimeout_noop(pendingTimers, handle) == pendingTimers

\* clearTimeout(handle): a handle whose callback has run is ignored
clearTimeout(pendingTimers, handle) == pendingTimers \ {handle}

\* scheduleAutoSave
scheduleAutoSave ==
  /\ timers' = (IF autoSaveTimer # NoTimer
                THEN clearTimeout(timers, autoSaveTimer)
                ELSE timers) \cup {nextTimer}
  /\ autoSaveTimer' = nextTimer
  /\ nextTimer' = nextTimer + 1
  /\ timerNote' = [h \in DOMAIN timerNote \cup {nextTimer} |->
                     IF h = nextTimer THEN activeNoteId ELSE timerNote[h]]

\* saveCurrentNote: whether it gets past its two early returns
savesNote(notes, active) == active # NoNote /\ findNote(notes, active) > 0

\* savedNotes that stores the title field only
savedNotes_titleOnly(notes, active, title, content, t) ==
  IF savesNote(notes, active)
  THEN [notes EXCEPT ![findNote(notes, active)].title = Or(title, "Untitled Note"),
                     ![findNote(notes, active)].updatedAt = t]
  ELSE notes

\* saveCurrentNote: travelNotes after the call
savedNotes(notes, active, title, content, t) ==
  IF savesNote(notes, active)
  THEN [notes EXCEPT ![findNote(notes, active)].title = Or(title, "Untitled Note"),
                     ![findNote(notes, active)].content = content,
                     ![findNote(notes, active)].updatedAt = t]
  ELSE notes

\* saveCurrentNote as part of a handler
saveCurrentNote ==
  /\ \E t \in Clock(noteNow) :
       /\ travelNotes' = savedNotes(travelNotes, activeNoteId, titleValue,
                                    contentValue, t)
       /\ noteNow' = IF savesNote(travelNotes, activeNoteId) THEN t ELSE noteNow
  /\ storedNotes' = IF savesNote(travelNotes, activeNoteId)
                    THEN travelNotes' ELSE storedNotes

\* an input event on the title field
titleInput(value) ==
  /\ editorShown
  /\ value # titleValue
  /\ titleValue' = value
  /\ scheduleAutoSave
  /\ noteOp' = "edit"
  /\ UNCHANGED <<travelNotes, activeNoteId, notesReady, storedNotes, legacyNote,
                 nextNoteId, nextCardId, noteNow, migrations, contentValue, modal>>
  /\ UNCHANGED <<chatVars, pageVars>>

\* an input event on the textarea
contentInput(value) ==
  /\ editorShown
  /\ value # contentValue
  /\ contentValue' = value
  /\ scheduleAutoSave
  /\ noteOp' = "edit"
  /\ UNCHANGED <<travelNotes, activeNoteId, notesReady, storedNotes, legacyNote,
                 nextNoteId, nextCardId, noteNow, migrations, titleValue, modal>>
  /\ UNCHANGED <<chatVars, pageVars>>

\* a blur event on the title field or on the textarea
fieldBlur ==
  /\ editorShown
  /\ saveCurrentNote
  /\ noteOp' = "blur"
  /\ UNCHANGED <<activeNoteId, notesReady, legacyNote, nextNoteId, nextCardId,
                 migrations, titleValue, contentValue, autoSaveTimer, timers,
                 nextTimer, timerNote, modal>>
  /\ UNCHANGED <<chatVars, pageVars>>

\* a click on the save button
saveClicked ==
  /\ editorShown
  /\ saveCurrentNote
  /\ noteOp' = "save-click"
  /\ UNCHANGED <<activeNoteId, notesReady, legacyNote, nextNoteId, nextCardId,
                 migrations, titleValue, contentValue, autoSaveTimer, timers,
                 nextTimer, timerNote, modal>>
  /\ UNCHANGED <<chatVars, pageVars>>

\* the callback scheduled by scheduleAutoSave runs
autoSaveFires(handle) ==
  /\ handle \in timers
  /\ timers' = timers \ {handle}
  /\ saveCurrentNote
  /\ noteOp' = IF savesNote(travelNotes, activeNoteId)
               THEN "autosave" ELSE "autosave-skipped"
  /\ UNCHANGED <<activeNoteId, notesReady, legacyNote, nextNoteId, nextCardId,
                 migrations, titleValue, contentValue, autoSaveTimer, nextTimer,
                 timerNote, modal>>
  /\ UNCHANGED <<chatVars, pageVars>>

\* a click on the clear-all button, up to the await of the confirm modal
clearAllClicked ==
  /\ notesReady
  /\ modal = "none"
  /\ IF activeNoteId = NoNote THEN UNCHANGED vars
     ELSE /\ modal' = "clear"
          /\ noteOp' = "clear-asked"
          /\ UNCHANGED <<travelNotes, activeNoteId, notesReady, storedNotes,
                         legacyNote, nextNoteId, nextCardId, noteNow, migrations,
                         titleValue, contentValue, autoSaveTimer, timers,
                         nextTimer, timerNote>>
          /\ UNCHANGED <<chatVars, pageVars>>

\* clearedNotes that also resets what the user wrote
clearedNotes_wipesText(notes, active, t) ==
  IF findNote(notes, active) > 0
  THEN [notes EXCEPT ![findNote(notes, active)].cards = <<>>,
                     ![findNote(notes, active)].title = "New Travel Note",
                     ![findNote(notes, active)].content = "",
                     ![findNote(notes, active)].updatedAt = t]
  ELSE notes

\* travelNotes after the confirmed branch of the clear-all handler
clearedNotes(notes, active, t) ==
  IF findNote(notes, active) > 0
  THEN [notes EXCEPT ![findNote(notes, active)].cards = <<>>,
                     ![findNote(notes, active)].updatedAt = t]
  ELSE notes

\* the clear-all handler after the confirm modal was answered
clearAllAnswered(confirmed) ==
  /\ modal = "clear"
  /\ modal' = "none"
  /\ IF confirmed /\ findNote(travelNotes, activeNoteId) > 0
     THEN /\ \E t \in Clock(noteNow) :
               /\ travelNotes' = clearedNotes(travelNotes, activeNoteId, t)
               /\ noteNow' = t
          /\ storedNotes' = travelNotes'
          /\ noteOp' = "clear"
     ELSE /\ noteOp' = "clear-declined"
          /\ UNCHANGED <<travelNotes, storedNotes, noteNow>>
  /\ UNCHANGED <<activeNoteId, notesReady, legacyNote, nextNoteId, nextCardId,
                 migrations, titleValue, contentValue, autoSaveTimer, timers,
                 nextTimer, timerNote>>
  /\ UNCHANGED <<chatVars, pageVars>>

\* ----------------------------------------------------------- card parsing
Nl == 10                       \* '\n'
Colon == 58                    \* ':'
CardOpen == 91                 \* the tag [CARD], taken as one character
CardClose == 93                \* the tag [/CARD], taken as one character
DataKey == <<100, 97, 116, 97>>                 \* 'data'

\* String.prototype.trim: blanks and line breaks go, at both ends
RECURSIVE trimStart(_)
trimStart(s) == IF s # <<>> /\ Head(s) \in {Sp, Nl} THEN trimStart(Tail(s)) ELSE s

RECURSIVE trimEnd(_)
trimEnd(s) ==
  IF s # <<>> /\ s[Len(s)] \in {Sp, Nl} THEN trimEnd(SubSeq(s, 1, Len(s) - 1)) ELSE s

trim(s) == trimEnd(trimStart(s))

\* the least index i >= from with s[i] = c, 0 when there is none
firstAt(s, c, from) ==
  LET hits == { i \in from..Len(s) : s[i] = c }
  IN IF hits = {} THEN 0 ELSE CHOOSE i \in hits : \A j \in hits : i <= j

\* String.prototype.indexOf, 1-based; 0 for the -1 of the source
indexOf(s, c) == firstAt(s, c, 1)

substring(s, from) == SubSeq(s, from, Len(s))

RECURSIVE split(_, _)
split(s, c) ==
  LET i == indexOf(s, c)
  IN IF i = 0 THEN <<s>>
     ELSE <<SubSeq(s, 1, i - 1)>> \o split(substring(s, i + 1), c)

startsWith(s, prefix) ==
  Len(s) >= Len(prefix) /\ SubSeq(s, 1, Len(prefix)) = prefix

\* the values of a card's fields
Str(s) == [kind |-> "string", text |-> s]
Num(s) == [kind |-> "number", text |-> s]
EmptyObject == [kind |-> "object", text |-> <<>>]

\* the members an object may have, each taken as one character (together
\* with the comma that parts it from the member before it)
TypeHotel == 72                \* "type":"hotel"
ModeTrain == 84                \* "mode":"train"
NameRitz == 78                 \* "name":"Ritz"
NameJoes == 74                 \* "name":"Joe's"
Members == {TypeHotel, ModeTrain, NameRitz, NameJoes}

\* JSON.parse on texts written with the characters { } 7 x : blanks and the
\* members above: a run of 7s is a number, braces around members and blanks
\* are an object (text holds its members in their order), and any other
\* such text makes it throw (ok = FALSE)
JSONparse(jsonStr) ==
  LET t == trim(jsonStr)
      isNumber == t # <<>> /\ \A i \in 1..Len(t) : t[i] = 55
      isObject == /\ Len(t) >= 2
                  /\ t[1] = 123
                  /\ t[Len(t)] = 125
                  /\ \A i \in 2..(Len(t) - 1) : t[i] \in {Sp, Nl} \cup Members
  IN IF isNumber THEN [ok |-> TRUE, value |-> Num(t)]
     ELSE IF isObject
     THEN [ok |-> TRUE,
           value |-> [kind |-> "object",
                      text |-> SelectSeq(SubSeq(t, 2, Len(t) - 1),
                                         LAMBDA c : c \in Members)]]
     ELSE [ok |-> FALSE, value |-> EmptyObject]

\* the catch block left empty
catchParse_skip(card) == card

\* catch(e) { card.data = {} }
catchParse(card) == (DataKey :> EmptyObject) @@ card

\* the body of lines.forEach: the card after one line
parseLine(card, line) ==
  IF startsWith(trim(line), DataKey \o <<Colon>>)
  THEN LET jsonStr == trim(substring(line, indexOf(line, Colon) + 1))
           parsed == JSONparse(jsonStr)
       IN IF parsed.ok THEN (DataKey :> parsed.value) @@ card
                       ELSE catchParse(card)
  ELSE LET colonIndex == indexOf(line, Colon)
       IN IF colonIndex > 1
          THEN LET key == trim(SubSeq(line, 1, colonIndex - 1))
                   value == trim(substring(line, colonIndex + 1))
               IN (key :> Str(value)) @@ card
          ELSE card

RECURSIVE forEachLine(_, _)
forEachLine(card, lines) ==
  IF lines = <<>> THEN card
  ELSE forEachLine(parseLine(card, Head(lines)), Tail(lines))

\* the card object built from match[1]
parseCard(cardContent) == forEachLine(<<>>, split(trim(cardContent), Nl))

\* a greedy quantifier: the match runs to the last closing tag
matchEnd_greedy(content, i) ==
  LET hits == { j \in (i + 1)..Len(content) : content[j] = CardClose }
  IN IF hits = {} THEN 0 ELSE CHOOSE j \in hits : \A k \in hits : k <= j

\* ([\s\S]*?)\[\/CARD\]: the match that opens at i ends with the first
\* closing tag after i; 0 when there is none
matchEnd(content, i) == firstAt(content, CardClose, i + 1)

\* the while loop over cardRegex.exec(content), lastIndex being from - 1
RECURSIVE execFrom(_, _)
execFrom(content, from) ==
  LET i == firstAt(content, CardOpen, from)
      j == IF i = 0 THEN 0 ELSE matchEnd(content, i)
  IN IF j = 0 THEN <<>>
     ELSE << [card |-> parseCard(SubSeq(content, i + 1, j - 1)),
              fullMatch |-> SubSeq(content, i, j)] >>
          \o execFrom(content, j + 1)

parseCards(content) == execFrom(content, 1)

\* the lines a block may hold, each with the field it is to give:
\* "none", "field" (key, value), "data" (a value) or "bad" (data that
\* does not parse)
NoField == [sets |-> "none", key |-> <<>>, value |-> <<>>]
CardLines ==
  { [text |-> <<>>, gives |-> NoField],
    [text |-> <<120>>, gives |-> NoField],
    [text |-> <<Colon, 104>>, gives |-> NoField],
    [text |-> <<116, Colon, Sp, 104>>,
     gives |-> [sets |-> "field", key |-> <<116>>, value |-> <<104>>]],
    [text |-> <<Sp, 116, Sp, Colon, 105, Sp>>,
     gives |-> [sets |-> "field", key |-> <<116>>, value |-> <<105>>]],
    [text |-> <<117, Colon, 97, Colon, 98>>,
     gives |-> [sets |-> "field", key |-> <<117>>, value |-> <<97, Colon, 98>>]],
    [text |-> DataKey \o <<Colon, Sp, 55>>,
     gives |-> [sets |-> "data", key |-> DataKey, value |-> <<55>>]],
    [text |-> <<Sp>> \o DataKey \o <<Colon, 123, 125>>,
     gives |-> [sets |-> "data", key |-> DataKey, value |-> <<>>]],
    [text |-> DataKey \o <<Colon, Sp, 123, 120>>,
     gives |-> [sets |-> "bad", key |-> DataKey, value |-> <<>>]],
    [text |-> DataKey \o <<Colon, 120, Colon, 55>>,
     gives |-> [sets |-> "bad", key |-> DataKey, value |-> <<>>]] }

RECURSIVE joinLines(_)
joinLines(ls) ==
  IF ls = <<>> THEN <<>>
  ELSE IF Len(ls) = 1 THEN ls[1].text
  ELSE ls[1].text \o <<Nl>> \o joinLines(Tail(ls))

\* a block with the given lines, and one with blank space around them
Block(ls) ==
  [block |-> TRUE, lines |-> ls,
   text |-> <<CardOpen>> \o joinLines(ls) \o <<CardClose>>]
PaddedBlock(ls) ==
  [block |-> TRUE, lines |-> ls,
   text |-> <<CardOpen, Nl, Sp>> \o joinLines(ls) \o <<Sp, Nl, CardClose>>]
Plain(t) == [block |-> FALSE, lines |-> <<>>, text |-> t]

SeqsUpTo(S, n) == UNION { [1..k -> S] : k \in 0..n }

\* the pieces of a message with several blocks: plain text, a closing tag
\* on its own, and three blocks
SimplePieces ==
  { Plain(<<120>>), Plain(<<120, CardClose, Nl>>),
    Block(<<>>),
    Block(<< CHOOSE l \in CardLines : l.text = <<116, Colon, Sp, 104>> >>),
    PaddedBlock(<< CHOOSE l \in CardLines : l.text = <<117, Colon, 97, Colon, 98>>,
                   CHOOSE l \in CardLines : l.text = DataKey \o <<Colon, Sp, 123, 120>> >>) }

\* the messages parseCards is given: up to MaxPieces simple pieces, or one
\* block of up to MaxLines lines
CardMessages ==
  SeqsUpTo(SimplePieces, MaxPieces)
  \cup { <<Block(ls)>> : ls \in SeqsUpTo(CardLines, MaxLines) }
  \cup { <<PaddedBlock(ls)>> : ls \in SeqsUpTo(CardLines, MaxLines) }

RECURSIVE textOf(_)
textOf(pieces) ==
  IF pieces = <<>> THEN <<>> ELSE Head(pieces).text \o textOf(Tail(pieces))

\* ------------------------------------------ the add button of a chat card
\* JSON.stringify of a value JSON.parse gave
JSONstringify(value) ==
  IF value.kind = "object" THEN <<123>> \o value.text \o <<125>> ELSE value.text

\* encodeURIComponent: digits stay; braces, and in a member the double
\* quotes and the colon, become %XX (a character so written is 1000 more);
\* an apostrophe stays as it is
Escaped == 1000
encodeURIComponent(s) ==
  [i \in 1..Len(s) |-> IF s[i] = 55 THEN s[i] ELSE s[i] + Escaped]
decodeURIComponent(s) ==
  [i \in 1..Len(s) |-> IF s[i] > Escaped THEN s[i] - Escaped ELSE s[i]]

\* the text holds an apostrophe
hasApostrophe(s) == \E i \in 1..Len(s) : s[i] = NameJoes + Escaped

\* renderCard that hands over the type line along with the data
clickData_withType(card) ==
  LET data == IF DataKey \in DOMAIN card THEN card[DataKey] ELSE EmptyObject
  IN IF <<116>> \in DOMAIN card /\ card[<<116>>].text = <<104>>
        /\ data.kind = "object"
     THEN [data EXCEPT !.text = @ \o <<TypeHotel>>]
     ELSE data

\* renderCard: var data = card.data || {}
clickData(card) ==
  IF DataKey \in DOMAIN card THEN card[DataKey] ELSE EmptyObject

\* renderCard: the argument written into the onclick attribute of the button
encodedData(card) == encodeURIComponent(JSONstringify(clickData(card)))

\* the properties addCardToTravelNote reads from the parsed value; a number
\* has none, and of two members with one key the later one counts
RECURSIVE withMembers(_, _)
withMembers(cardData, members) ==
  IF members = <<>> THEN cardData
  ELSE withMembers(
         CASE Head(members) = TypeHotel -> [cardData EXCEPT !.type = "hotel"]
           [] Head(members) = ModeTrain -> [cardData EXCEPT !.mode = "train"]
           [] Head(members) = NameRitz -> [cardData EXCEPT !.name = "Ritz"]
           [] Head(members) = NameJoes -> [cardData EXCEPT !.name = "Joe's"]
           [] OTHER -> cardData,
         Tail(members))

propertiesOf(value) ==
  IF value.kind = "object" THEN withMembers(NoData, value.text) ELSE NoData

\* a click on the add button of the k-th card of the message: the handler
\* '...addCardToTravelNote('<encodedData>', this)' does not compile when the
\* argument holds an apostrophe; addCardToTravelNote decodes and parses a
\* string argument and returns when that throws
addCardClicked(k) ==
  LET arg == encodedData(parsedCards[k].card)
      parsed == JSONparse(decodeURIComponent(arg))
  IN /\ cardOp = "parsed"
     /\ k \in 1..Len(parsedCards)
     /\ notesReady
     /\ IF hasApostrophe(arg) \/ ~parsed.ok
        THEN /\ noteOp' = IF hasApostrophe(arg) THEN "click-threw" ELSE "add-failed"
             /\ UNCHANGED <<travelNotes, activeNoteId, notesReady, storedNotes,
                            legacyNote, nextNoteId, nextCardId, noteNow,
                            migrations, editorVars>>
             /\ UNCHANGED <<chatVars, pageVars>>
        ELSE addCardToTravelNote(propertiesOf(parsed.value))

\* the blocks of a message whose cards get an add button: a type line or
\* none, and a data line or none
TypeLines ==
  { <<>>,
    << [text |-> <<116, Colon, Sp, 104>>,
        gives |-> [sets |-> "field", key |-> <<116>>, value |-> <<104>>]] >>,
    << [text |-> <<Sp, 116, Sp, Colon, 105, Sp>>,
        gives |-> [sets |-> "field", key |-> <<116>>, value |-> <<105>>]] >> }
DataLines ==
  { <<>>,
    << [text |-> DataKey \o <<Colon, Sp, 55>>,
        gives |-> [sets |-> "data", key |-> DataKey, value |-> <<55>>]] >>,
    << [text |-> DataKey \o <<Colon, Sp, 123, 120>>,
        gives |-> [sets |-> "bad", key |-> DataKey, value |-> <<>>]] >>,
    << [text |-> DataKey \o <<Colon, 123, TypeHotel, Sp, NameRitz, 125>>,
        gives |-> [sets |-> "data", key |-> DataKey,
                   value |-> <<TypeHotel, NameRitz>>]] >>,
    << [text |-> DataKey \o <<Colon, 123, ModeTrain, 125>>,
        gives |-> [sets |-> "data", key |-> DataKey, value |-> <<ModeTrain>>]] >>,
    << [text |-> DataKey \o <<Colon, 123, NameJoes, 125>>,
        gives |-> [sets |-> "data", key |-> DataKey, value |-> <<NameJoes>>]] >> }
ClickPieces == { Block(t \o d) : t \in TypeLines, d \in DataLines }
ClickMessages == { m \in SeqsUpTo(ClickPieces, ClickBlocks) : m # <<>> }

\* addChatMessage has a message with cards to render
InitClickText ==
  /\ cardPieces \in ClickMessages
  /\ cardText = textOf(cardPieces)
  /\ parsedCards = <<>>
  /\ cardOp = "text"

\* ------------------------------------------------------ itinerary planner
NoItin == 0                    \* null
Quote == 34                    \* '"'

FieldNames == {"origin", "destination", "startDate", "endDate", "budget", "notes"}
BlankFields == [f \in FieldNames |-> <<>>]

\* the value an <input> gets from value="..." written into innerHTML without
\* escaping: the attribute ends at the first double quote
attrValue(s) ==
  LET q == indexOf(s, Quote)
  IN IF q = 0 THEN s ELSE SubSeq(s, 1, q - 1)

\* the value a <textarea> gets from text written into innerHTML: the parser
\* drops a line break that comes first
textareaValue(s) == IF s # <<>> /\ Head(s) = Nl THEN Tail(s) ELSE s

\* a day card: the values of its activity inputs and of its textarea; source
\* is the stored day it was rendered from (NoDay for a new card) and edited
\* tells whether an input event or a removed activity has changed it since
NoDay == [dayNumber |-> 0, activities |-> <<>>, notes |-> <<>>]
NewDayCard ==
  [activities |-> << <<>> >>, notes |-> <<>>, source |-> NoDay, edited |-> FALSE]

\* addDayCard(dayData) for a stored day
renderDay(dayData) ==
  [activities |-> [a \in 1..Len(dayData.activities) |-> attrValue(dayData.activities[a])],
   notes |-> textareaValue(dayData.notes),
   source |-> dayData,
   edited |-> FALSE]

findItin(list, id) ==
  LET hits == { i \in 1..Len(list) : list[i].id = id }
  IN IF hits = {} THEN 0 ELSE CHOOSE i \in hits : \A j \in hits : i <= j

ItinIds(list) == { list[i].id : i \in 1..Len(list) }

\* if (input.value.trim()) activities.push(input.value.trim())
RECURSIVE collectActivities(_)
collectActivities(inputs) ==
  IF inputs = <<>> THEN <<>>
  ELSE IF trim(Head(inputs)) = <<>> THEN collectActivities(Tail(inputs))
  ELSE <<trim(Head(inputs))>> \o collectActivities(Tail(inputs))

\* the days array saveItinerary collects from the day cards; dayNumber is
\* index + 1, index being 0-based in the source and 1-based here
collectDays(daysOfCards) ==
  [k \in 1..Len(daysOfCards) |->
     [dayNumber |-> k,
      activities |-> collectActivities(daysOfCards[k].activities),
      notes |-> daysOfCards[k].notes]]

\* an itinerary that saveItinerary has written: three days, the third with
\* an activity that holds double quotes and with notes that begin with a
\* line break
StoredTrip ==
  [id |-> 1,
   fields |-> [BlankFields EXCEPT !.destination = <<82>>],
   days |-> << [dayNumber |-> 1, activities |-> << <<97>> >>, notes |-> <<110>>],
               [dayNumber |-> 2, activities |-> << <<98>> >>, notes |-> <<>>],
               [dayNumber |-> 3,
                activities |-> << <<99, Sp, Quote, 100, Quote>> >>,
                notes |-> <<Nl, 111>>] >>]

\* what localStorage may hold at page load
PlannerStores == { <<>>, <<StoredTrip>> }

\* DOMContentLoaded of the planner; the editor is taken to be hidden until
\* showEditor(true) is called
InitPlanner ==
  /\ storedItineraries \in PlannerStores
  /\ itineraries = storedItineraries
  /\ currentItineraryId = NoItin
  /\ dayCounter = 0
  /\ planFields = BlankFields
  /\ dayCards = <<>>
  /\ planEditorShown = FALSE
  /\ planModal = FALSE
  /\ nextItinId = Len(storedItineraries) + 1
  /\ planSteps = 0
  /\ planOp = "init"

\* a click on an entry of #plannerList
loadItinerary(id) ==
  LET item == itineraries[findItin(itineraries, id)]
  IN /\ ~planModal
     /\ findItin(itineraries, id) > 0
     /\ currentItineraryId' = id
     /\ planFields' = item.fields
     /\ dayCards' = [k \in 1..Len(item.days) |-> renderDay(item.days[k])]
     /\ dayCounter' = Len(item.days)
     /\ planEditorShown' = TRUE
     /\ planOp' = "load"
     /\ planSteps' = planSteps + 1
     /\ UNCHANGED <<itineraries, storedItineraries, planModal, nextItinId>>
     /\ UNCHANGED <<chatVars, noteVars, cardVars, mgrVars>>

\* createNewItinerary that writes the new itinerary to the store at once
storedAfterCreate_saves(stored, id) ==
  Append(stored, [id |-> id, fields |-> BlankFields, days |-> <<>>])

\* createNewItinerary makes no call of localStorage.setItem
storedAfterCreate(stored, id) == stored

\* btnAddItinerary.onclick
createNewItinerary ==
  /\ ~planModal
  /\ currentItineraryId' = nextItinId
  /\ nextItinId' = nextItinId + 1
  /\ planFields' = BlankFields
  /\ dayCards' = <<NewDayCard>>
  /\ dayCounter' = 1
  /\ planEditorShown' = TRUE
  /\ storedItineraries' = storedAfterCreate(storedItineraries, nextItinId)
  /\ planOp' = "create"
  /\ planSteps' = planSteps + 1
  /\ UNCHANGED <<itineraries, planModal>>
  /\ UNCHANGED <<chatVars, noteVars, cardVars, mgrVars>>

\* btnSaveItinerary.onclick
saveItinerary ==
  LET data == [id |-> currentItineraryId,
               fields |-> planFields,
               days |-> collectDays(dayCards)]
      idx == findItin(itineraries, currentItineraryId)
      updated == IF idx > 0 THEN [itineraries EXCEPT ![idx] = data]
                            ELSE Append(itineraries, data)
  IN /\ ~planModal
     /\ planEditorShown
     /\ itineraries' = updated
     /\ storedItineraries' = updated
     /\ planOp' = "save"
     /\ planSteps' = planSteps + 1
     /\ UNCHANGED <<currentItineraryId, dayCounter, planFields, dayCards,
                    planEditorShown, planModal, nextItinId>>
     /\ UNCHANGED <<chatVars, noteVars, cardVars, mgrVars>>

\* btnDeleteItinerary.onclick up to the await
deleteItinerary ==
  /\ ~planModal
  /\ planEditorShown
  /\ planModal' = (currentItineraryId # NoItin)
  /\ planOp' = "delete-asked"
  /\ planSteps' = planSteps + 1
  /\ UNCHANGED <<itineraries, storedItineraries, currentItineraryId, dayCounter,
                 planFields, dayCards, planEditorShown, nextItinId>>
  /\ UNCHANGED <<chatVars, noteVars, cardVars, mgrVars>>

\* deleteItinerary after the await: the modal was answered
deleteItineraryAnswered(confirmed) ==
  LET kept == SelectSeq(itineraries, LAMBDA i : i.id # currentItineraryId)
  IN /\ planModal
     /\ planSteps' = planSteps + 1
     /\ planModal' = FALSE
     /\ IF confirmed
        THEN /\ itineraries' = kept
             /\ storedItineraries' = kept
             /\ currentItineraryId' = NoItin
             /\ planEditorShown' = FALSE
             /\ planOp' = "delete"
        ELSE /\ planOp' = "delete-declined"
             /\ UNCHANGED <<itineraries, storedItineraries, currentItineraryId,
                            planEditorShown>>
     /\ UNCHANGED <<dayCounter, planFields, dayCards, nextItinId>>
     /\ UNCHANGED <<chatVars, noteVars, cardVars, mgrVars>>

\* btnAddDay.onclick: addDayCard()
addDayCard ==
  /\ ~planModal
  /\ planEditorShown
  /\ dayCounter' = dayCounter + 1
  /\ dayCards' = Append(dayCards, NewDayCard)
  /\ planOp' = "add-day"
  /\ planSteps' = planSteps + 1
  /\ UNCHANGED <<itineraries, storedItineraries, currentItineraryId, planFields,
                 planEditorShown, planModal, nextItinId>>
  /\ UNCHANGED <<chatVars, noteVars, cardVars, mgrVars>>

\* the remove button of the k-th day card: this.closest('.day-card').remove()
removeDayCard(k) ==
  /\ ~planModal
  /\ planEditorShown
  /\ k \in 1..Len(dayCards)
  /\ dayCards' = RemoveAt(dayCards, k)
  /\ planOp' = "remove-day"
  /\ planSteps' = planSteps + 1
  /\ UNCHANGED <<itineraries, storedItineraries, currentItineraryId, dayCounter,
                 planFields, planEditorShown, planModal, nextItinId>>
  /\ UNCHANGED <<chatVars, noteVars, cardVars, mgrVars>>

\* window.MOBIX.addActivity on the k-th day card
addActivity(k) ==
  /\ ~planModal
  /\ planEditorShown
  /\ k \in 1..Len(dayCards)
  /\ dayCards' = [dayCards EXCEPT ![k].activities = Append(@, <<>>)]
  /\ planOp' = "add-activity"
  /\ planSteps' = planSteps + 1
  /\ UNCHANGED <<itineraries, storedItineraries, currentItineraryId, dayCounter,
                 planFields, planEditorShown, planModal, nextItinId>>
  /\ UNCHANGED <<chatVars, noteVars, cardVars, mgrVars>>

\* the remove button of the j-th activity of the k-th day card
removeActivity(k, j) ==
  /\ ~planModal
  /\ planEditorShown
  /\ k \in 1..Len(dayCards)
  /\ j \in 1..Len(dayCards[k].activities)
  /\ dayCards' = [dayCards EXCEPT ![k].activities = RemoveAt(@, j),
                                  ![k].edited = TRUE]
  /\ planOp' = "remove-activity"
  /\ planSteps' = planSteps + 1
  /\ UNCHANGED <<itineraries, storedItineraries, currentItineraryId, dayCounter,
                 planFields, planEditorShown, planModal, nextItinId>>
  /\ UNCHANGED <<chatVars, noteVars, cardVars, mgrVars>>

\* what the user may type into an activity input, a day's textarea or one of
\* the itinerary inputs
ActivityInputs == { <<Sp, 101>> }
NotesInputs == { <<112>> }
FieldInputs == { <<120>> }

\* the user types into the j-th activity input of the k-th day card
activityInput(k, j, value) ==
  /\ ~planModal
  /\ planEditorShown
  /\ k \in 1..Len(dayCards)
  /\ j \in 1..Len(dayCards[k].activities)
  /\ dayCards' = [dayCards EXCEPT ![k].activities[j] = value,
                                  ![k].edited = TRUE]
  /\ planSteps' = planSteps + 1
  /\ planOp' = "edit-activity"
  /\ UNCHANGED <<itineraries, storedItineraries, currentItineraryId, dayCounter,
                 planFields, planEditorShown, planModal, nextItinId>>
  /\ UNCHANGED <<chatVars, noteVars, cardVars, mgrVars>>

\* the user types into the textarea of the k-th day card
dayNotesInput(k, value) ==
  /\ ~planModal
  /\ planEditorShown
  /\ k \in 1..Len(dayCards)
  /\ dayCards' = [dayCards EXCEPT ![k].notes = value, ![k].edited = TRUE]
  /\ planSteps' = planSteps + 1
  /\ planOp' = "edit-notes"
  /\ UNCHANGED <<itineraries, storedItineraries, currentItineraryId, dayCounter,
                 planFields, planEditorShown, planModal, nextItinId>>
  /\ UNCHANGED <<chatVars, noteVars, cardVars, mgrVars>>

\* the user types into one of the six itinerary inputs
fieldInput(f, value) ==
  /\ ~planModal
  /\ planEditorShown
  /\ planFields' = [planFields EXCEPT ![f] = value]
  /\ planSteps' = planSteps + 1
  /\ planOp' = "edit-field"
  /\ UNCHANGED <<itineraries, storedItineraries, currentItineraryId, dayCounter,
                 dayCards, planEditorShown, planModal, nextItinId>>
  /\ UNCHANGED <<chatVars, noteVars, cardVars, mgrVars>>

\* ------------------------------------------- the module-based ChatManager
MgrNewChatText == <<78, 111, 118, 105>>         \* 'Novi razgovor'
StoredSession == 1             \* the session id kept in localStorage

\* state.getOrCreateSession(): the id in localStorage; the constructor of
\* StateManager has put one there
getOrCreateSession == StoredSession

\* userMessage.substring(0, 30) + (userMessage.length > 30 ? '...' : '')
mgrTitle(userMessage) ==
  IF Len(userMessage) > TitleMax
  THEN SubSeq(userMessage, 1, TitleMax) \o <<Dot, Dot, Dot>>
  ELSE userMessage

\* the StateManager of a first visit, before ChatManager.init
InitMgr ==
  /\ state_savedChats = <<>>
  /\ state_storedChats = <<>>
  /\ state_chatHistory = <<>>
  /\ state_activeChatId = NoChat
  /\ state_sessionId = getOrCreateSession
  /\ mgrShared = FALSE
  /\ mgrPending = {}
  /\ mgrSent = 0
  /\ mgrNextId = 1
  /\ mgrReady = FALSE
  /\ mgrOp = "init"

\* createNewChat, called with state.savedChats = chats
mgrCreateNewChat(chats) ==
  /\ mgrNextId <= MgrChats
  /\ state_savedChats' =
       <<[id |-> mgrNextId, title |-> MgrNewChatText, messages |-> <<>>,
          sessionId |-> getOrCreateSession]>> \o chats
  /\ state_storedChats' = state_savedChats'
  /\ state_activeChatId' = mgrNextId
  /\ state_chatHistory' = <<>>
  /\ mgrShared' = FALSE
  /\ state_sessionId' = getOrCreateSession
  /\ mgrNextId' = mgrNextId + 1

\* loadChat(chatId), called with state.savedChats = chats: state.chatHistory
\* becomes a copy of the chat's messages
mgrLoadChat(chats, chatId) ==
  LET idx == findIndex(chats, chatId)
  IN /\ state_savedChats' = chats
     /\ IF idx = 0
        THEN UNCHANGED <<state_activeChatId, state_chatHistory, state_sessionId,
                         mgrShared>>
        ELSE /\ state_activeChatId' = chatId
             /\ state_chatHistory' = chats[idx].messages
             /\ mgrShared' = FALSE
             /\ state_sessionId' = IF chats[idx].sessionId = NoChat
                                   THEN getOrCreateSession
                                   ELSE chats[idx].sessionId
     /\ UNCHANGED mgrNextId

\* ChatManager.init
ChatManager_init ==
  /\ ~mgrReady
  /\ mgrReady' = TRUE
  /\ mgrOp' = "init-done"
  /\ IF state_activeChatId \in StoredIds(state_savedChats)
     THEN mgrLoadChat(state_savedChats, state_activeChatId)
          /\ UNCHANGED state_storedChats
     ELSE IF state_savedChats # <<>>
          THEN mgrLoadChat(state_savedChats, state_savedChats[1].id)
               /\ UNCHANGED state_storedChats
          ELSE mgrCreateNewChat(state_savedChats)
  /\ UNCHANGED <<mgrPending, mgrSent>>
  /\ UNCHANGED <<chatVars, noteVars, cardVars, planVars>>

\* a click on the new-chat button
ChatManager_createNewChat ==
  /\ mgrReady
  /\ mgrCreateNewChat(state_savedChats)
  /\ mgrOp' = "new"
  /\ UNCHANGED <<mgrPending, mgrSent, mgrReady>>
  /\ UNCHANGED <<chatVars, noteVars, cardVars, planVars>>

\* a click on a chat of the history list
ChatManager_loadChat(chatId) ==
  /\ mgrReady
  /\ chatId \in StoredIds(state_savedChats)
  /\ mgrLoadChat(state_savedChats, chatId)
  /\ mgrOp' = "load"
  /\ UNCHANGED <<state_storedChats, mgrPending, mgrSent, mgrReady>>
  /\ UNCHANGED <<chatVars, noteVars, cardVars, planVars>>

\* a click on the delete button of a chat of the history list
ChatManager_deleteChat(chatId) ==
  LET chats == filterOut(state_savedChats, chatId)
  IN /\ mgrReady
     /\ chatId \in StoredIds(state_savedChats)
     /\ IF state_activeChatId = chatId
        THEN IF chats # <<>>
             THEN /\ mgrLoadChat(chats, chats[1].id)
                  /\ state_storedChats' = chats
             ELSE mgrCreateNewChat(chats)
        ELSE /\ state_savedChats' = chats
             /\ state_storedChats' = chats
             /\ UNCHANGED <<state_activeChatId, state_chatHistory,
                            state_sessionId, mgrShared, mgrNextId>>
     /\ mgrOp' = "delete"
     /\ UNCHANGED <<mgrPending, mgrSent, mgrReady>>
     /\ UNCHANGED <<chatVars, noteVars, cardVars, planVars>>

\* sendMessage up to its await: the request carries state.sessionId as it is
\* now; chat is history, the chat that was open
ChatManager_sendMessage(raw) ==
  LET message == Trim(raw)
      msg == [role |-> "user", content |-> message]
  IN /\ mgrReady
     /\ mgrSent < MgrSends
     /\ IF message = <<>>
        THEN /\ mgrOp' = "send-empty"
             /\ UNCHANGED <<state_savedChats, state_chatHistory, mgrPending,
                            mgrSent>>
        ELSE /\ state_chatHistory' = Append(state_chatHistory, msg)
             /\ state_savedChats' =
                  pushShared(state_savedChats, state_activeChatId, mgrShared, msg)
             /\ mgrPending' = mgrPending \cup
                  { [id |-> mgrSent + 1, message |-> message,
                     session_id |-> state_sessionId,
                     chat |-> state_activeChatId] }
             /\ mgrSent' = mgrSent + 1
             /\ mgrOp' = "send"
     /\ UNCHANGED <<state_storedChats, state_activeChatId, state_sessionId,
                    mgrShared, mgrNextId, mgrReady>>
     /\ UNCHANGED <<chatVars, noteVars, cardVars, planVars>>

\* sendMessage after its await, the call of api.sendMessage having resolved
ChatManager_replyArrives(r) ==
  \E data \in ResponseData :
    LET msg == [role |-> "assistant", content |-> botResponse(data)]
        history == Append(state_chatHistory, msg)
        pushed == pushShared(state_savedChats, state_activeChatId, mgrShared, msg)
        idx == findIndex(pushed, state_activeChatId)
    IN /\ r \in mgrPending
       /\ mgrPending' = mgrPending \ {r}
       /\ state_chatHistory' = history
       /\ IF idx = 0
          THEN /\ state_savedChats' = pushed
               /\ UNCHANGED <<state_storedChats, mgrShared>>
          ELSE /\ state_savedChats' =
                    [pushed EXCEPT
                       ![idx].messages = history,
                       ![idx].title = IF Len(history) = 2
                                      THEN mgrTitle(r.message) ELSE @]
               /\ state_storedChats' = state_savedChats'
               /\ mgrShared' = TRUE
       /\ mgrOp' = "reply"
       /\ UNCHANGED <<state_activeChatId, state_sessionId, mgrSent, mgrNextId,
                      mgrReady>>
       /\ UNCHANGED <<chatVars, noteVars, cardVars, planVars>>

\* sendMessage after its await, the call of api.sendMessage having rejected:
\* the catch block shows a message and stores nothing
ChatManager_replyFails(r) ==
  /\ r \in mgrPending
  /\ mgrPending' = mgrPending \ {r}
  /\ mgrOp' = "reply-failed"
  /\ UNCHANGED <<state_savedChats, state_storedChats, state_chatHistory,
                 state_activeChatId, state_sessionId, mgrShared, mgrSent,
                 mgrNextId, mgrReady>>
  /\ UNCHANGED <<chatVars, noteVars, cardVars, planVars>>

\* nothing has been parsed
InitCards ==
  /\ cardText = <<>>
  /\ cardPieces = <<>>
  /\ parsedCards = <<>>
  /\ cardOp = "none"

\* the rest of the page while another screen is in use: no message is being
\* parsed and no itinerary is stored
InitPage ==
  /\ InitCards
  /\ InitPlanner
  /\ storedItineraries = <<>>
  /\ InitMgr

\* addChatMessage has a message to render
InitCardText ==
  /\ cardPieces \in CardMessages
  /\ cardText = textOf(cardPieces)
  /\ parsedCards = <<>>
  /\ cardOp = "text"

\* var cards = parseCards(content) in addChatMessage
parseCardsCalled ==
  /\ cardOp = "text"
  /\ parsedCards' = parseCards(cardText)
  /\ cardOp' = "parsed"
  /\ UNCHANGED <<cardText, cardPieces>>
  /\ UNCHANGED <<chatVars, noteVars, planVars, mgrVars>>

\* ---------------------------------------------------------- specifications
\* the chat screen; the travel-note module is left before its page load
ChatInit ==
  /\ InitChat
  /\ InitNotes
  /\ InitPage
  /\ legacyNote.kind = "absent"

ChatNext ==
  \/ sent < MaxSends /\ \E raw \in RawInputs(sent + 1) : sendChatMessage(raw)
  \/ \E r \in pending, data \in ResponseData : replyArrives(r, data)
  \/ \E r \in pending : replyFails(r)
  \/ \E id \in StoredIds(savedChats) : loadChat(id)
  \/ \E id \in StoredIds(savedChats), confirmed \in BOOLEAN : deleteChat(id, confirmed)
  \/ nextId <= MaxChats /\ startNewChat

Spec == ChatInit /\ [][ChatNext]_vars

\* the chat screen used with one request at a time and a server that answers:
\* fewer interleavings, which leaves room for more chats and messages
SeqNext ==
  \/ /\ sent < SeqSends
     /\ pending = {}
     /\ \E raw \in RawInputs(sent + 1) : sendChatMessage(raw)
  \/ \E r \in pending, data \in ResponseData : replyArrives(r, data)
  \/ \E id \in StoredIds(savedChats) : loadChat(id)
  \/ \E id \in StoredIds(savedChats), confirmed \in BOOLEAN : deleteChat(id, confirmed)
  \/ nextId <= SeqChats /\ startNewChat

SpecSeq == ChatInit /\ [][SeqNext]_vars

\* the chat screen with one request at a time and a server free to answer
\* with any of ReplyShapes
ReplyNext ==
  \/ /\ sent < ReplySends
     /\ pending = {}
     /\ \E raw \in RawInputs(sent + 1) : sendChatMessage(raw)
  \/ \E r \in pending, data \in ReplyShapes : replyArrives(r, data)
  \/ \E id \in StoredIds(savedChats) : loadChat(id)
  \/ nextId <= ReplyChats /\ startNewChat

SpecReply == ChatInit /\ [][ReplyNext]_vars

\* the chat screen with a localStorage that may refuse a write (quota
\* exceeded, storage disabled), one request at a time
QuotaNext ==
  \/ /\ sent < QuotaSends
     /\ pending = {}
     /\ \E raw \in RawInputs(sent + 1) : sendChatMessage(raw)
  \/ /\ sent < QuotaSends
     /\ pending = {}
     /\ Len(chatMessages) < 2 * QuotaSends
     /\ \E raw \in RawInputs(sent + 1) : sendChatMessageThrows(raw)
  \/ \E r \in pending, data \in ResponseData : replyArrives(r, data)
  \/ \E r \in pending, data \in ResponseData : replyArrivesThrows(r, data)
  \/ \E id \in StoredIds(savedChats) : loadChat(id)
  \/ nextId <= QuotaChats /\ startNewChat

SpecQuota == ChatInit /\ [][QuotaNext]_vars

\* the chat screen with one request at a time and messages on both sides of
\* the title limit
TitleNext ==
  \/ /\ sent < TitleSends
     /\ pending = {}
     /\ \E raw \in TitleInputs(sent + 1) : sendChatMessage(raw)
  \/ \E r \in pending, data \in ResponseData : replyArrives(r, data)
  \/ \E id \in StoredIds(savedChats) : loadChat(id)
  \/ \E id \in StoredIds(savedChats) : deleteChat(id, TRUE)
  \/ nextId <= TitleChats /\ startNewChat

SpecTitle == ChatInit /\ [][TitleNext]_vars

\* parseCards applied to one message
CardsInit ==
  /\ InitChat
  /\ InitNotes
  /\ legacyNote.kind = "absent"
  /\ InitCardText
  /\ InitPlanner
  /\ storedItineraries = <<>>
  /\ InitMgr

CardsNext == parseCardsCalled

SpecCards == CardsInit /\ [][CardsNext]_vars

\* the itinerary planner; chat and travel notes are left as they start
PlannerInit ==
  /\ InitChat
  /\ InitNotes
  /\ legacyNote.kind = "absent"
  /\ InitCards
  /\ InitPlanner
  /\ InitMgr

\* the runs of the planner end with the MaxPlanSteps-th handler
PlanRunning == planSteps < MaxPlanSteps

PlannerNext ==
  \/ PlanRunning /\ \E id \in ItinIds(itineraries) : loadItinerary(id)
  \/ PlanRunning /\ createNewItinerary
  \/ PlanRunning /\ saveItinerary
  \/ PlanRunning /\ deleteItinerary
  \/ PlanRunning /\ \E confirmed \in BOOLEAN : deleteItineraryAnswered(confirmed)
  \/ PlanRunning /\ dayCounter < MaxDays /\ addDayCard
  \/ PlanRunning /\ \E k \in 1..Len(dayCards) : removeDayCard(k)
  \/ PlanRunning /\ \E k \in 1..Len(dayCards) : addActivity(k)
  \/ /\ PlanRunning
     /\ \E k \in 1..Len(dayCards) :
          \E j \in 1..Len(dayCards[k].activities) : removeActivity(k, j)
  \/ /\ PlanRunning
     /\ \E k \in 1..Len(dayCards) :
          \E j \in 1..Len(dayCards[k].activities), value \in ActivityInputs :
            activityInput(k, j, value)
  \/ /\ PlanRunning
     /\ \E k \in 1..Len(dayCards), value \in NotesInputs : dayNotesInput(k, value)
  \/ PlanRunning /\ \E f \in FieldNames, value \in FieldInputs : fieldInput(f, value)

SpecPlanner == PlannerInit /\ [][PlannerNext]_vars

\* the travel-note screen; the chat screen is left in its initial state
NotesInit ==
  /\ InitChat
  /\ InitNotes
  /\ InitPage

NotesNext ==
  \/ loadNotes
  \/ newNoteClicked
  \/ \E id \in NoteIds(travelNotes) : openNote(id)
  \/ \E id \in NoteIds(travelNotes), confirmed \in BOOLEAN : deleteNote(id, confirmed)
  \/ \E cardData \in CardInputs : addCardToTravelNote(cardData)

SpecNotes == NotesInit /\ [][NotesNext]_vars

\* the chat screen of the module-based application
ManagerInit ==
  /\ InitChat
  /\ InitNotes
  /\ InitPage
  /\ legacyNote.kind = "absent"

ManagerNext ==
  \/ ChatManager_init
  \/ ChatManager_createNewChat
  \/ \E chatId \in StoredIds(state_savedChats) : ChatManager_loadChat(chatId)
  \/ \E chatId \in StoredIds(state_savedChats) : ChatManager_deleteChat(chatId)
  \/ \E raw \in RawInputs(mgrSent + 1) : ChatManager_sendMessage(raw)
  \/ \E r \in mgrPending : ChatManager_replyArrives(r)
  \/ \E r \in mgrPending : ChatManager_replyFails(r)

SpecManager == ManagerInit /\ [][ManagerNext]_vars

\* the travel-note screen with the remove button of the saved cards
\* the runs with the remove button end with the MaxRemoveTime-th reading of
\* the clock
RmRunning == noteNow < MaxRemoveTime

RemoveNext ==
  \/ RmRunning /\ loadNotes
  \/ RmRunning /\ newNoteClicked
  \/ RmRunning /\ \E id \in NoteIds(travelNotes) : openNote(id)
  \/ RmRunning /\ \E id \in NoteIds(travelNotes) : deleteNote(id, TRUE)
  \/ RmRunning /\ \E cardData \in CardInputs : addCardToTravelNote(cardData)
  \/ RmRunning /\ \E cardId \in CardIdsOf(travelNotes) : removeCardFromNote(cardId)

SpecRemove == NotesInit /\ [][RemoveNext]_vars

\* the note editor: the travel-note screen with typing, blur, the save button,
\* the auto-save timer and the clear-all button; nothing was left by an
\* earlier version of the application. While the confirm modal is open only
\* its buttons and the timer can act.
EditorInit ==
  /\ InitChat
  /\ InitNotes
  /\ InitPage
  /\ legacyNote.kind = "absent"

\* the runs of the note editor end with the MaxTime-th reading of the clock
EdRunning == noteNow < MaxTime

EditorNext ==
  \/ EdRunning /\ modal = "none" /\ loadNotes
  \/ EdRunning /\ modal = "none" /\ nextNoteId <= EdNotes /\ newNoteClicked
  \/ EdRunning /\ modal = "none" /\ \E id \in NoteIds(travelNotes) : openNote(id)
  \/ /\ EdRunning
     /\ modal = "none"
     /\ \E id \in NoteIds(travelNotes) : deleteNote(id, TRUE)
  \/ /\ EdRunning
     /\ modal = "none"
     /\ nextCardId <= EdCards
     /\ nextNoteId <= EdNotes
     /\ \E cardData \in CardInputs : addCardToTravelNote(cardData)
  \/ /\ EdRunning
     /\ nextTimer <= MaxEdits
     /\ \E value \in EditTitles : titleInput(value)
  \/ /\ EdRunning
     /\ nextTimer <= MaxEdits
     /\ \E value \in EditContents : contentInput(value)
  \/ EdRunning /\ fieldBlur
  \/ EdRunning /\ saveClicked
  \/ EdRunning /\ \E handle \in timers : autoSaveFires(handle)
  \/ EdRunning /\ clearAllClicked
  \/ EdRunning /\ \E confirmed \in BOOLEAN : clearAllAnswered(confirmed)

SpecEditor == EditorInit /\ [][EditorNext]_vars

\* the classification over every combination of type and mode
ClassifyTypes ==
  { "", "transport", "hotel", "restaurant", "activity", "attraction", "flight",
    "Hotel" }
ClassifyModes == { "", "plane", "car", "bus", "train", "boat", "Train" }
ClassifyInputs ==
  { [NoData EXCEPT !.type = type, !.mode = mode] :
      type \in ClassifyTypes, mode \in ClassifyModes }

ClassifyNext ==
  \/ loadNotes
  \/ /\ nextCardId <= ClassifyCards
     /\ \E cardData \in ClassifyInputs : addCardToTravelNote(cardData)

SpecClassify == EditorInit /\ [][ClassifyNext]_vars

\* the planner's option cards added to the travel notes
OptionsNext ==
  \/ loadNotes
  \/ /\ nextCardId <= OptionCards
     /\ \E opt \in PlannerOptions : addToTravelNote(opt)

SpecOptions == EditorInit /\ [][OptionsNext]_vars

\* a message with cards is rendered and its add buttons are clicked
ClickInit ==
  /\ InitChat
  /\ InitNotes
  /\ legacyNote.kind = "absent"
  /\ InitClickText
  /\ InitPlanner
  /\ storedItineraries = <<>>
  /\ InitMgr

ClickNext ==
  \/ loadNotes
  \/ parseCardsCalled
  \/ \E k \in 1..Len(parsedCards) : addCardClicked(k)

SpecClick == ClickInit /\ [][ClickNext]_vars

\* ------------------------------------------------------------------ claims
AssistantMsg(data) == [role |-> "assistant", content |-> botResponse(data)]

IsPrefix(a, b) == Len(a) <= Len(b) /\ SubSeq(b, 1, Len(a)) = a

\* C1: a reply that arrives for chat A while another stored chat B is open
\* (A was not deleted meanwhile) is appended at the end of A's stored
\* transcript; B's record, the open transcript and what is displayed (hence no
\* error message) stay as they were.
C1_ChatRace ==
  [][\A r \in pending : \A data \in ResponseData :
       ( /\ replyArrives(r, data)
         /\ r.targetChatId # NoChat
         /\ r.targetChatId \notin deletedIds
         /\ currentChatId # r.targetChatId
         /\ findIndex(savedChats, currentChatId) > 0 )
       => LET a == findIndex(savedChats, r.targetChatId)
              b == findIndex(savedChats, currentChatId)
          IN /\ a > 0
             /\ Len(savedChats') = Len(savedChats)
             /\ savedChats'[a].id = r.targetChatId
             /\ savedChats'[a].messages =
                  Append(savedChats[a].messages, AssistantMsg(data))
             /\ savedChats'[b] = savedChats[b]
             /\ chatHistory' = chatHistory
             /\ chatMessages' = chatMessages
             /\ currentChatId' = currentChatId]_vars

\* a reply has just been stored into a chat other than the open, stored one,
\* and no chat was ever deleted
C1_Witness ==
  /\ lastOp = "redirect-append"
  /\ deletedIds = {}
  /\ currentChatId # NoChat
  /\ findIndex(savedChats, currentChatId) > 0
  /\ \E i \in 1..Len(savedChats) :
       /\ savedChats[i].id # currentChatId
       /\ savedChats[i].updatedAt = now
       /\ Last(savedChats[i].messages).role = "assistant"

\* C2: when a request is issued the store holds a chat with the captured
\* targetChatId whose transcript ends with the user message just sent.
C2_UserMessagePersisted ==
  [][sent' = sent + 1 =>
       \E r \in pending' :
         /\ r.n = sent'
         /\ \E i \in 1..Len(savedChats') :
              /\ savedChats'[i].id = r.targetChatId
              /\ Last(savedChats'[i].messages) =
                   [role |-> "user", content |-> r.message]]_vars

\* C3: an id removed by deleteChat is never again the id of a stored chat.
C3_DeletedIsTerminal ==
  \A i \in 1..Len(savedChats) : savedChats[i].id \notin deletedIds

\* C4: deleting the open chat while other chats remain opens the remaining
\* chat with the greatest updatedAt.
C4_FallbackMostRecent ==
  [][\A id \in StoredIds(savedChats) :
       ( /\ deleteChat(id, TRUE)
         /\ id # NoChat
         /\ currentChatId = id
         /\ Len(savedChats') > 0 )
       => \E i \in 1..Len(savedChats') :
            /\ savedChats'[i].id = currentChatId'
            /\ \A j \in 1..Len(savedChats') :
                 savedChats'[j].updatedAt <= savedChats'[i].updatedAt]_vars

CountErrors(msgs) ==
  Cardinality({ i \in 1..Len(msgs) : msgs[i].content = ErrorText })

\* C5: when the network call fails, nothing is displayed and no transcript
\* changes if the open chat is not the captured target; otherwise exactly one
\* error message is appended to what is displayed. Either way the call is
\* over and the stored chats and the open transcript are as before.
C5_FailureHandling ==
  [][\A r \in pending :
       replyFails(r) =>
         /\ r \notin pending'
         /\ chatHistory' = chatHistory
         /\ savedChats' = savedChats
         /\ currentChatId' = currentChatId
         /\ IF currentChatId # r.targetChatId
            THEN chatMessages' = chatMessages
            ELSE /\ Len(chatMessages') = Len(chatMessages) + 1
                 /\ SubSeq(chatMessages', 1, Len(chatMessages)) = chatMessages
                 /\ Last(chatMessages').content = ErrorText
                 /\ CountErrors(chatMessages') = CountErrors(chatMessages) + 1]_vars

\* a failure was just reported in the chat that sent the request
C5_WitnessShown ==
  /\ lastOp = "error-shown"
  /\ chatMessages # <<>>
  /\ Last(chatMessages).content = ErrorText

\* C6: while a chat id stays in the store, its stored transcript only grows at
\* the end: the transcript before a step is a prefix of the one after it.
C6_TranscriptAppendOnly ==
  [][\A i \in 1..Len(savedChats) : \A j \in 1..Len(savedChats') :
       savedChats[i].id = savedChats'[j].id
         => IsPrefix(savedChats[i].messages, savedChats'[j].messages)]_vars

\* a stored transcript that grew over several sends and replies, one of them
\* stored by the redirect path
C6_Witness ==
  /\ lastOp = "redirect-append"
  /\ \E i \in 1..Len(savedChats) : Len(savedChats[i].messages) >= 3

\* C7: no stored chat has an empty message list.
C7_NoEmptyStoredChat ==
  \A i \in 1..Len(savedChats) : Len(savedChats[i].messages) >= 1

\* a draft is open (nothing sent in it yet) while other chats are stored
C7_Witness ==
  /\ lastOp = "new"
  /\ chatHistory = <<>>
  /\ Len(savedChats) >= 1
  /\ currentChatId \notin StoredIds(savedChats)

ItemCount(doc) ==
  Len(doc.transports.items) + Len(doc.hotels.items)
    + Len(doc.restaurants.items) + Len(doc.activitys.items)

\* the items of one legacy array, each with the given category
Tagged(items, category) ==
  [i \in 1..Len(items) |->
     [f \in (DOMAIN items[i]) \cup {"category"} |->
        IF f = "category" THEN category ELSE items[i][f]]]

ExpectedCards(doc) ==
  Tagged(doc.transports.items, "transports") \o Tagged(doc.hotels.items, "hotels")
    \o Tagged(doc.restaurants.items, "restaurants")
    \o Tagged(doc.activitys.items, "activities")

\* C8: loadNotes migrates exactly when the new-format store is empty and a
\* legacy document with at least one item exists; the result is then one
\* note with one card per legacy item in the order transports, hotels,
\* restaurants, activitys, each tagged with its category; otherwise the
\* loaded notes are the stored ones.
C8_MigrationExact ==
  [][loadNotes =>
       IF /\ storedNotes = <<>>
          /\ legacyNote.kind = "doc"
          /\ ItemCount(legacyNote) > 0
       THEN /\ Len(travelNotes') = 1
            /\ travelNotes'[1].cards = ExpectedCards(legacyNote)
            /\ storedNotes' = travelNotes'
            /\ migrations' = migrations + 1
       ELSE /\ travelNotes' = storedNotes
            /\ storedNotes' = storedNotes
            /\ migrations' = migrations]_vars

\* the legacy document with items in three of its arrays has been migrated
C8_Witness ==
  /\ noteOp = "load-migrated"
  /\ Len(travelNotes) = 1
  /\ Len(travelNotes[1].cards) = 4
  /\ travelNotes[1].cards[4].category = "activities"

\* C9: a store initialization that finds the new store populated and the
\* legacy document populated leaves the new store as it is.
C9_MigrationIdempotent ==
  [][( /\ loadNotes
       /\ storedNotes # <<>>
       /\ legacyNote.kind = "doc"
       /\ ItemCount(legacyNote) > 0 )
     => /\ storedNotes' = storedNotes
        /\ travelNotes' = storedNotes
        /\ migrations' = migrations]_vars

\* the page was loaded again after the migration, the migrated note still
\* being the only note in the store
C9_Witness ==
  /\ noteOp = "load-plain"
  /\ migrations = 1
  /\ ItemCount(legacyNote) > 0
  /\ Len(storedNotes) = 1
  /\ storedNotes[1].title = "My Travel Items"
  /\ travelNotes = storedNotes

\* C10: at most one migrated note is ever created from the legacy document.
C10_MigratedAtMostOnce == migrations <= 1

\* C11: loadNotes never writes the legacy document, and when the new-format
\* store is not empty what it loads is the store alone: the same whatever the
\* legacy document holds, malformed JSON included.
C11_MigrationNonDestructive ==
  [][loadNotes =>
       /\ legacyNote' = legacyNote
       /\ storedNotes # <<>> =>
            /\ travelNotes' = storedNotes
            /\ storedNotes' = storedNotes
            /\ migrations' = migrations]_vars

\* the page was loaded with notes in the store and a legacy document that is
\* not valid JSON
C11_Witness ==
  /\ noteOp = "load-plain"
  /\ legacyNote.kind = "malformed"
  /\ storedNotes # <<>>
  /\ travelNotes = storedNotes

\* C12: addCardToTravelNote called while no note exists or no note is active
\* adds exactly one note; the new note holds exactly the one new card, is
\* titled 'Trip to <city>' for a record with a city and 'My Travel Note'
\* otherwise, is persisted and becomes the active note; the notes that
\* existed before are all still there, unchanged.
C12_AddCreatesNote ==
  [][\A cardData \in CardInputs :
       ( /\ addCardToTravelNote(cardData)
         /\ (Len(travelNotes) = 0 \/ activeNoteId = NoNote) )
       => \E k \in 1..Len(travelNotes') :
            /\ RemoveAt(travelNotes', k) = travelNotes
            /\ travelNotes'[k].id \notin NoteIds(travelNotes)
            /\ Len(travelNotes'[k].cards) = 1
            /\ travelNotes'[k].cards[1].data = cardData
            /\ travelNotes'[k].title =
                 (IF cardData.city # "" THEN "Trip to " \o cardData.city
                  ELSE "My Travel Note")
            /\ storedNotes' = travelNotes'
            /\ activeNoteId' = travelNotes'[k].id]_vars

\* a card was added while a note existed but none was open: a second note
\* titled after the city was created for it and is now the open note
C12_Witness ==
  /\ noteOp = "add-new"
  /\ Len(travelNotes) = 2
  /\ \E k \in 1..2 :
       /\ travelNotes[k].title = "Trip to Paris"
       /\ Len(travelNotes[k].cards) = 1
       /\ activeNoteId = travelNotes[k].id
  /\ storedNotes = travelNotes

\* C13: addCardToTravelNote called while a note is active appends the new
\* card as the last card of the active note, updates that note's updatedAt
\* and persists; no note is created, and the cards, title and content of
\* every other note stay as they were.
C13_AddAppendsToActive ==
  [][\A cardData \in CardInputs :
       ( /\ addCardToTravelNote(cardData)
         /\ Len(travelNotes) > 0
         /\ activeNoteId # NoNote )
       => LET a == findNote(travelNotes, activeNoteId)
          IN /\ a > 0
             /\ Len(travelNotes') = Len(travelNotes)
             /\ Len(travelNotes'[a].cards) = Len(travelNotes[a].cards) + 1
             /\ IsPrefix(travelNotes[a].cards, travelNotes'[a].cards)
             /\ Last(travelNotes'[a].cards).data = cardData
             /\ travelNotes'[a].updatedAt > travelNotes[a].updatedAt
             /\ travelNotes'[a].updatedAt = Last(travelNotes'[a].cards).addedAt
             /\ travelNotes'[a].id = activeNoteId
             /\ activeNoteId' = activeNoteId
             /\ storedNotes' = travelNotes'
             /\ \A i \in 1..Len(travelNotes) :
                  i # a => /\ travelNotes'[i].id = travelNotes[i].id
                           /\ travelNotes'[i].cards = travelNotes[i].cards
                           /\ travelNotes'[i].title = travelNotes[i].title
                           /\ travelNotes'[i].content = travelNotes[i].content]_vars

\* with two notes in the store, a second card was just appended to the open one
C13_Witness ==
  /\ noteOp = "add-active"
  /\ Len(travelNotes) = 2
  /\ \E a \in 1..2 :
       /\ travelNotes[a].id = activeNoteId
       /\ Len(travelNotes[a].cards) = 2
       /\ travelNotes[a].updatedAt = noteNow
       /\ travelNotes[a].cards[2].addedAt = noteNow

AddOps == { "add-new", "add-active", "add-first" }

\* two cards that differ in their ids and in nothing else but addedAt
SameButIdAndTime(c, d) ==
  /\ DOMAIN c = DOMAIN d
  /\ c.id # d.id
  /\ \A f \in DOMAIN c \ {"id", "addedAt"} : c[f] = d[f]

\* C14: every card built by addCardToTravelNote has one of the four
\* categories, and a record with mode 'train' gets category 'transports' and
\* cardType 'train' whatever its type is.
C14_ClassifierTotal ==
  \A i \in 1..Len(travelNotes) : \A j \in 1..Len(travelNotes[i].cards) :
    LET card == travelNotes[i].cards[j]
    IN /\ card.category \in {"transports", "hotels", "restaurants", "activities"}
       /\ card.data.mode = "train" =>
            card.category = "transports" /\ card.cardType = "train"

\* a card was built from a hotel record with mode 'train'
C14_Witness ==
  /\ noteOp \in AddOps
  /\ \E i \in 1..Len(travelNotes) : \E j \in 1..Len(travelNotes[i].cards) :
       /\ travelNotes[i].cards[j].data.mode = "train"
       /\ travelNotes[i].cards[j].data.type = "hotel"
       /\ travelNotes[i].cards[j].cardType = "train"

\* the priority rule: transport first, then hotel, restaurant, activity
RuleClass(type, mode) ==
  IF type = "transport" \/ mode \in {"plane", "car", "bus", "train"}
  THEN <<"transports", IF mode # "" THEN mode ELSE "plane">>
  ELSE IF type = "hotel" THEN <<"hotels", "hotel">>
  ELSE IF type = "restaurant" THEN <<"restaurants", "restaurant">>
  ELSE <<"activities", "activity">>

\* C15: the category and cardType of every card built by addCardToTravelNote
\* are those of the priority rule applied to the record's type and mode; a
\* hotel record with mode 'car' is a transport.
C15_ClassifierPriority ==
  \A i \in 1..Len(travelNotes) : \A j \in 1..Len(travelNotes[i].cards) :
    LET card == travelNotes[i].cards[j]
    IN /\ <<card.category, card.cardType>> = RuleClass(card.data.type, card.data.mode)
       /\ (card.data.type = "hotel" /\ card.data.mode = "car") =>
            card.category = "transports"

\* a card was built from a hotel record with mode 'car'
C15_Witness ==
  /\ noteOp \in AddOps
  /\ \E i \in 1..Len(travelNotes) : \E j \in 1..Len(travelNotes[i].cards) :
       /\ travelNotes[i].cards[j].data.type = "hotel"
       /\ travelNotes[i].cards[j].data.mode = "car"
       /\ travelNotes[i].cards[j].category = "transports"
       /\ travelNotes[i].cards[j].cardType = "car"

\* C16: when addCardToTravelNote is called with the record it was called with
\* just before, the card of the first call and the card of the second call end
\* up next to each other in the same note, with distinct ids and equal values
\* in every field but id and addedAt.
C16_ReAddNoDedup ==
  [][\A cardData \in CardInputs :
       ( /\ addCardToTravelNote(cardData)
         /\ noteOp \in AddOps
         /\ \E i \in 1..Len(travelNotes) :
              /\ travelNotes[i].cards # <<>>
              /\ Last(travelNotes[i].cards).addedAt = noteNow
              /\ Last(travelNotes[i].cards).data = cardData )
       => \E i \in 1..Len(travelNotes') :
            LET cards == travelNotes'[i].cards
            IN /\ Len(cards) >= 2
               /\ i <= Len(travelNotes)
               /\ travelNotes[i].cards # <<>>
               /\ cards[Len(cards) - 1] = Last(travelNotes[i].cards)
               /\ cards[Len(cards) - 1].addedAt = noteNow
               /\ Last(cards).data = cardData
               /\ SameButIdAndTime(cards[Len(cards) - 1], Last(cards))]_vars

\* the same record was added twice in a row, the first time creating the note
C16_Witness ==
  /\ noteOp = "add-active"
  /\ \E i \in 1..Len(travelNotes) :
       /\ Len(travelNotes[i].cards) = 2
       /\ travelNotes[i].cards[1].data = travelNotes[i].cards[2].data
       /\ travelNotes[i].cards[1].id # travelNotes[i].cards[2].id
       /\ travelNotes[i].cards[1].addedAt = travelNotes[i].createdAt

C18_BlurCollapsesDebounce ==
  [][fieldBlur =>
       /\ storedNotes' = savedNotes(storedNotes, activeNoteId, titleValue,
                                    contentValue, noteNow')
       /\ storedNotes' # storedNotes
       /\ timers' = {}]_vars

\* C19: at most one auto-save callback is pending, and it is the one whose
\* handle the module keeps.
C19_OneTimerPending ==
  /\ Cardinality(timers) <= 1
  /\ timers \subseteq {autoSaveTimer}

\* a second input event replaced the callback scheduled by the first: the
\* only note ever created is open and was never saved since its creation
C19_Witness ==
  /\ noteOp = "edit"
  /\ timers = {2}
  /\ autoSaveTimer = 2
  /\ nextNoteId = 2
  /\ Len(travelNotes) = 1
  /\ travelNotes[1].id = activeNoteId
  /\ travelNotes[1].updatedAt = travelNotes[1].createdAt

\* C20: the click on the clear-all button changes no note; when the modal is
\* confirmed the cards of the active note become empty and the store is
\* persisted, the note's id, title and content and every other note being as
\* before; when it is declined no note and no field changes.
C20_ClearAll ==
  [][/\ clearAllClicked =>
          /\ travelNotes' = travelNotes
          /\ storedNotes' = storedNotes
     /\ \A confirmed \in BOOLEAN :
          clearAllAnswered(confirmed) =>
            IF confirmed
            THEN LET a == findNote(travelNotes, activeNoteId)
                 IN /\ a > 0
                    /\ Len(travelNotes') = Len(travelNotes)
                    /\ travelNotes'[a].cards = <<>>
                    /\ travelNotes'[a].id = travelNotes[a].id
                    /\ travelNotes'[a].title = travelNotes[a].title
                    /\ travelNotes'[a].content = travelNotes[a].content
                    /\ \A i \in 1..Len(travelNotes) :
                         i # a => travelNotes'[i] = travelNotes[i]
                    /\ storedNotes' = travelNotes'
                    /\ activeNoteId' = activeNoteId
            ELSE /\ travelNotes' = travelNotes
                 /\ storedNotes' = storedNotes
                 /\ activeNoteId' = activeNoteId
                 /\ titleValue' = titleValue
                 /\ contentValue' = contentValue]_vars

\* with two notes in the store, the one card of the open note was cleared
\* while the textarea held text that had not been saved
C20_Witness ==
  /\ noteOp = "clear"
  /\ nextCardId = 2
  /\ nextNoteId = 3
  /\ Len(travelNotes) = 2
  /\ \A i \in 1..2 : travelNotes[i].cards = <<>>
  /\ \E a \in 1..2 :
       /\ travelNotes[a].id = activeNoteId
       /\ travelNotes[a].title = "Trip to Paris"
       /\ travelNotes[a].content = ""
       /\ travelNotes[a].updatedAt = noteNow
  /\ contentValue \in EditContents
  /\ storedNotes = travelNotes

\* C27: a confirmed deleteChat on the only stored chat leaves savedChats
\* empty, and startNewChat called next yields a fresh draft: a new current
\* chat id that is not null and not in the store, an empty transcript and a
\* store that is still empty.
C27_DeleteLastThenNew ==
  [][/\ \A id \in StoredIds(savedChats) :
          (deleteChat(id, TRUE) /\ Len(savedChats) = 1) => savedChats' = <<>>
     /\ (startNewChat /\ lastOp = "delete" /\ savedChats = <<>>)
          => /\ currentChatId' # NoChat
             /\ currentChatId' # currentChatId
             /\ currentChatId' \notin StoredIds(savedChats')
             /\ currentChatId' \notin deletedIds
             /\ chatHistory' = <<>>
             /\ savedChats' = <<>>]_vars

\* C28: when a reply arrives while the open chat is not the target and the
\* store has no record with the captured targetChatId, exactly one record is
\* inserted: its id is targetChatId, its sessionId targetSessionId and its
\* messages the captured user message followed by the assistant reply; every
\* other stored chat and the open transcript are as before.
C28_RedirectInsert ==
  [][\A r \in pending : \A data \in ResponseData :
       ( /\ replyArrives(r, data)
         /\ currentChatId # r.targetChatId
         /\ findIndex(savedChats, r.targetChatId) = 0 )
       => /\ \E k \in 1..Len(savedChats') :
               /\ RemoveAt(savedChats', k) = savedChats
               /\ savedChats'[k].id = r.targetChatId
               /\ savedChats'[k].sessionId = r.targetSessionId
               /\ savedChats'[k].messages =
                    << [role |-> "user", content |-> r.message],
                       AssistantMsg(data) >>
          /\ chatHistory' = chatHistory
          /\ chatMessages' = chatMessages
          /\ currentChatId' = currentChatId]_vars

\* a reply came back for a chat that was deleted while the request was in
\* flight, another stored chat being open
C28_Witness ==
  /\ lastOp = "redirect-insert"
  /\ Len(savedChats) = 2
  /\ findIndex(savedChats, currentChatId) > 0
  /\ \E k \in 1..2 :
       /\ savedChats[k].id # currentChatId
       /\ savedChats[k].id \in deletedIds
       /\ Len(savedChats[k].messages) = 2
       /\ savedChats[k].updatedAt = now

\* C29: there are never more typing indicators displayed than requests in
\* flight; in particular none is displayed once every request has completed.
C29_TypingIndicatorRemoved ==
  /\ typing <= Cardinality(pending)
  /\ pending = {} => typing = 0

\* two requests were sent from two chats and both have completed, the last
\* one for a chat that was not open
C29_Witness ==
  /\ sent >= 2
  /\ pending = {}
  /\ typing = 0
  /\ lastOp \in {"redirect-append", "redirect-insert", "error-hidden"}
  /\ chatMessages # <<>>

\* the assistant text that the step stored for request r: in the open
\* transcript on the normal path, in the target record on the redirect path
ReplyStored(r) ==
  IF currentChatId = r.targetChatId
  THEN Last(chatHistory').content
  ELSE Last(savedChats'[findIndex(savedChats', r.targetChatId)].messages).content

FirstPresent(data) ==
  IF data.reply # Absent THEN data.reply
  ELSE IF data.response # Absent THEN data.response
  ELSE IF data.message # Absent THEN data.message
  ELSE FallbackText

FirstNonEmpty(data) ==
  IF data.reply \notin {Absent, <<>>} THEN data.reply
  ELSE IF data.response \notin {Absent, <<>>} THEN data.response
  ELSE IF data.message \notin {Absent, <<>>} THEN data.message
  ELSE FallbackText

\* C25 as stated: the assistant text is the value of the first key present
\* among reply, response, message, and the generic acknowledgement only when
\* none of the three is present, on the normal and on the redirect path.
C25_FirstPresentKey ==
  [][\A r \in pending : \A data \in ReplyShapes :
       replyArrives(r, data) => ReplyStored(r) = FirstPresent(data)]_vars

\* C25 amended: the assistant text is the value of the first key among reply,
\* response, message whose value is a non-empty text, and the generic
\* acknowledgement when no key has one, on the normal and on the redirect
\* path alike.
C25_FirstNonEmptyKey ==
  [][\A r \in pending : \A data \in ReplyShapes :
       replyArrives(r, data) => ReplyStored(r) = FirstNonEmpty(data)]_vars

\* a reply whose first key was empty was answered from the second key on the
\* redirect path, and one with no usable key by the acknowledgement on the
\* normal path
C25_Witness ==
  /\ lastOp = "reply"
  /\ Last(chatHistory).content = FallbackText
  /\ \E i \in 1..Len(savedChats) :
       /\ savedChats[i].id # currentChatId
       /\ Last(savedChats[i].messages).content = <<83>>

\* C26: a localStorage write that throws during sendChatMessage does not stop
\* the workflow: the request is still issued, the transcript in memory keeps
\* the appended message, and a reply that was received is not followed by the
\* network-error message.
C26_StorageFailureContained ==
  [][/\ \A raw \in RawInputs(sent + 1) :
          sendChatMessageThrows(raw)
          => /\ \E r \in pending' \ pending : r.message = Trim(raw)
             /\ Last(chatHistory').content = Trim(raw)
     /\ \A r \in pending : \A data \in ResponseData :
          replyArrivesThrows(r, data)
          => /\ \A i \in 1..Len(chatMessages') :
                  i > Len(chatMessages) => chatMessages'[i].content # ErrorText
             /\ ~userSwitched(r) => Last(chatHistory').content = botResponse(data)
    ]_vars

\* the title that the first user message m of a chat gives: m itself up to
\* TitleMax characters, else its first TitleMax characters and an ellipsis
TitleRule(m) ==
  IF Len(m) > TitleMax THEN SubSeq(m, 1, TitleMax) \o <<Dot, Dot, Dot>> ELSE m

\* C30: the title of a stored chat is set when the chat is first written to
\* savedChats, from its first user message cut at 30 characters, and stays
\* the same for as long as the chat is in the store, whichever step appends
\* messages to it.
C30_TitleFixed ==
  [][\A i \in 1..Len(savedChats') :
       LET c == savedChats'[i]
       IN IF c.id \in StoredIds(savedChats)
          THEN \A j \in 1..Len(savedChats) :
                  savedChats[j].id = c.id => c.title = savedChats[j].title
          ELSE /\ c.messages[1].role = "user"
               /\ c.title = TitleRule(c.messages[1].content)]_vars

\* a chat that began with a message over the limit has a cut title and got
\* further messages on the normal and on the redirect path
C30_Witness ==
  /\ lastOp = "redirect-append"
  /\ \E i \in 1..Len(savedChats) :
       /\ Len(savedChats[i].title) = TitleMax + 3
       /\ Len(savedChats[i].messages[1].content) = TitleMax + 1
       /\ Len(savedChats[i].messages) = 4

\* the blocks among the pieces of a message, in order
IsBlock(p) == p.block
BlocksOf(pieces) == SelectSeq(pieces, IsBlock)

\* C23: for a text with N well-formed blocks that are not nested, parseCards
\* returns N records in the order of the text, the i-th with the text of the
\* i-th block as fullMatch, and the text is as it was.
C23_OneRecordPerBlock ==
  cardOp = "parsed"
  => /\ Len(parsedCards) = Len(BlocksOf(cardPieces))
     /\ \A i \in 1..Len(parsedCards) :
          parsedCards[i].fullMatch = BlocksOf(cardPieces)[i].text
     /\ cardText = textOf(cardPieces)

\* two blocks with plain text between them were parsed
C23_Witness ==
  /\ cardOp = "parsed"
  /\ Len(cardPieces) = 3
  /\ ~cardPieces[2].block
  /\ Len(parsedCards) = 2
  /\ parsedCards[1].fullMatch # parsedCards[2].fullMatch

\* the line of ls that decides the field of line k: no later line sets it
Decides(ls, k) ==
  /\ ls[k].gives.sets # "none"
  /\ \A m \in (k + 1)..Len(ls) :
       ls[m].gives.sets = "none" \/ ls[m].gives.key # ls[k].gives.key

\* C24: no block is dropped for its data: a block whose data line does not
\* parse gives a record whose data is the empty object and whose other
\* 'key: value' lines are parsed as usual, and a block without any such line
\* gives a record with no fields.
C24_MalformedDataKept ==
  cardOp = "parsed"
  => /\ Len(parsedCards) = Len(BlocksOf(cardPieces))
     /\ \A i \in 1..Len(BlocksOf(cardPieces)) :
          LET ls == BlocksOf(cardPieces)[i].lines
              card == parsedCards[i].card
          IN /\ DOMAIN card =
                  { ls[k].gives.key : k \in { n \in 1..Len(ls) : ls[n].gives.sets # "none" } }
             /\ \A k \in 1..Len(ls) :
                  Decides(ls, k)
                  => card[ls[k].gives.key] =
                       CASE ls[k].gives.sets = "bad" -> EmptyObject
                         [] ls[k].gives.sets = "field" -> Str(ls[k].gives.value)
                         [] ls[k].gives.sets = "data" ->
                              IF ls[k].gives.value = <<>> THEN EmptyObject
                              ELSE Num(ls[k].gives.value)

\* a block with a field line and a data line that does not parse gave a
\* record with both fields
C24_Witness ==
  /\ cardOp = "parsed"
  /\ Len(cardPieces) = 1
  /\ Len(parsedCards) = 1
  /\ \E k \in 1..Len(cardPieces[1].lines) : cardPieces[1].lines[k].gives.sets = "bad"
  /\ DOMAIN parsedCards[1].card = {DataKey, <<116>>}
  /\ parsedCards[1].card[DataKey] = EmptyObject
  /\ parsedCards[1].card[<<116>>] = Str(<<104>>)

\* the record that the save of this step wrote for the open itinerary
SavedNow == itineraries'[findItin(itineraries', currentItineraryId)]

\* C21: at a save the persisted days are numbered 1..N by the position of
\* their day cards, and a day whose card was rendered from a stored day and
\* not edited since has that day's activities and notes; so for days [1,2,3]
\* with the second card removed the persisted days are [1,2] with the
\* content of the former days 1 and 3.
C21_DayRenumbering ==
  [][saveItinerary
     => /\ storedItineraries' = itineraries'
        /\ Len(SavedNow.days) = Len(dayCards)
        /\ \A k \in 1..Len(dayCards) :
             /\ SavedNow.days[k].dayNumber = k
             /\ (dayCards[k].source # NoDay /\ ~dayCards[k].edited)
                  => /\ SavedNow.days[k].activities = dayCards[k].source.activities
                     /\ SavedNow.days[k].notes = dayCards[k].source.notes]_vars

\* C22: createNewItinerary gives a current itinerary id that is not null and
\* leaves the persisted list as it is, and the persisted list changes in no
\* step other than a saveItinerary or a confirmed deleteItinerary; editing a
\* field, adding or removing a day or an activity leaves it as it is.
C22_PersistOnSaveOnly ==
  [][/\ createNewItinerary
          => /\ currentItineraryId' # NoItin
             /\ storedItineraries' = storedItineraries
     /\ storedItineraries' # storedItineraries
          => saveItinerary \/ deleteItineraryAnswered(TRUE)
     /\ planOp' \in {"edit-activity", "edit-notes", "edit-field", "add-day",
                     "remove-day", "add-activity", "remove-activity", "load"}
          => storedItineraries' = storedItineraries]_vars

\* a new itinerary was created next to a stored one, got a second day and an
\* activity, and the store holds what it held at page load
C22_Witness ==
  /\ planOp = "edit-activity"
  /\ currentItineraryId # NoItin
  /\ currentItineraryId \notin ItinIds(storedItineraries)
  /\ Len(dayCards) = 2
  /\ storedItineraries = <<StoredTrip>>
  /\ itineraries = storedItineraries

\* C34: no two records of savedChats have the same id.
C34_UniqueChatIds ==
  \A i, j \in 1..Len(savedChats) :
    savedChats[i].id = savedChats[j].id => i = j

\* two chats are stored, one of them written by the redirect path after it
\* had been deleted, and both have been written more than once
C34_Witness ==
  /\ Len(savedChats) = 2
  /\ sent = 2
  /\ pending = {}
  /\ \E i \in 1..2 : savedChats[i].id \in deletedIds
  /\ \A i \in 1..2 : Len(savedChats[i].messages) >= 2

\* C35: every record of savedChats has an id that is not null, and every
\* request in flight was issued with a targetChatId and a session_id that
\* are not null.
C35_NoNullIds ==
  /\ \A i \in 1..Len(savedChats) : savedChats[i].id # NoChat
  /\ \A r \in pending :
       r.targetChatId # NoChat /\ r.targetSessionId # NoChat

\* the texts of the requests issued so far, and the texts a reply may carry
SentTexts == { Trim(raw) : raw \in UNION { RawInputs(k) : k \in 1..sent } } \ {<<>>}
ReplyTexts == { botResponse(data) : data \in ResponseData }

StoredMessage(m) ==
  /\ m.content # ErrorText
  /\ m.role = "user" => m.content \in SentTexts
  /\ m.role = "assistant" => m.content \in ReplyTexts

\* C36: the error message of a failed send is displayed only: it is not in
\* chatHistory nor in any transcript of savedChats, where every message is a
\* user message that was sent or an assistant reply that was received.
C36_ErrorDisplayOnly ==
  /\ \A k \in 1..Len(chatHistory) : StoredMessage(chatHistory[k])
  /\ \A i \in 1..Len(savedChats) :
       \A k \in 1..Len(savedChats[i].messages) :
         StoredMessage(savedChats[i].messages[k])

\* the error message is on display under a stored transcript that ends
\* with the user message
C36_Witness ==
  /\ lastOp = "error-shown"
  /\ Last(chatMessages).content = ErrorText
  /\ chatHistory # <<>>
  /\ Last(chatHistory).role = "user"
  /\ findIndex(savedChats, currentChatId) > 0
  /\ savedChats[findIndex(savedChats, currentChatId)].messages = chatHistory

\* C38: a request in flight carries the sessionId stored with its chat, two
\* requests from one chat carry the same session_id, two stored chats with
\* different ids have different sessionIds, and the open chat, once stored,
\* runs under its stored sessionId: the session id given at creation
\* survives loadChat, saveCurrentChat and the redirect path.
C38_SessionPerChat ==
  /\ \A r \in pending : \A i \in 1..Len(savedChats) :
       savedChats[i].id = r.targetChatId
       => savedChats[i].sessionId = r.targetSessionId
  /\ \A r1, r2 \in pending :
       r1.targetChatId = r2.targetChatId
       => r1.targetSessionId = r2.targetSessionId
  /\ \A i, j \in 1..Len(savedChats) :
       savedChats[i].id # savedChats[j].id
       => savedChats[i].sessionId # savedChats[j].sessionId
  /\ \A i \in 1..Len(savedChats) :
       savedChats[i].id = currentChatId
       => savedChats[i].sessionId = chatSessionId

\* a stored chat was opened again after another chat had been used, and a
\* second request was sent from it
C38_Witness ==
  /\ lastOp = "send"
  /\ sent = 2
  /\ Len(savedChats) = 2
  /\ Cardinality(pending) = 2
  /\ \A r \in pending : r.targetChatId # NoChat
  /\ \E r1, r2 \in pending : r1.targetChatId # r2.targetChatId

\* C31: removeCardFromNote(cardId) removes from the active note exactly the
\* cards whose id is cardId, keeps the other cards in their order, persists,
\* and leaves the note's title and content and every other note as they
\* were; with no active note it changes nothing.
C31_RemoveCard ==
  [][\A cardId \in CardIdsOf(travelNotes) :
       removeCardFromNote(cardId)
       => IF activeNoteId = NoNote
          THEN travelNotes' = travelNotes /\ storedNotes' = storedNotes
          ELSE /\ Len(travelNotes') = Len(travelNotes)
               /\ storedNotes' = travelNotes'
               /\ \A i \in 1..Len(travelNotes) :
                    IF travelNotes[i].id = activeNoteId
                    THEN /\ travelNotes'[i].id = travelNotes[i].id
                         /\ travelNotes'[i].title = travelNotes[i].title
                         /\ travelNotes'[i].content = travelNotes[i].content
                         /\ travelNotes'[i].cards =
                              SelectSeq(travelNotes[i].cards,
                                        LAMBDA c : c.id # cardId)
                    ELSE travelNotes'[i] = travelNotes[i]]_vars

\* the first of two cards of the active note was removed, another note being
\* stored as well
C31_Witness ==
  /\ noteOp = "remove"
  /\ Len(travelNotes) = 2
  /\ \E i \in 1..2 :
       /\ travelNotes[i].id = activeNoteId
       /\ Len(travelNotes[i].cards) = 1
       /\ travelNotes[i].cards[1].id = nextCardId - 1
  /\ storedNotes = travelNotes

\* C33: activeNoteId is null or the id of a note in travelNotes, and so
\* addCardToTravelNote never takes its branch 'add to first note'.
C33_ActiveNoteStored ==
  /\ activeNoteId = NoNote \/ activeNoteId \in NoteIds(travelNotes)
  /\ noteOp # "add-first"

\* a note other than the open one was deleted, and the open one is stored
C33_Witness ==
  /\ noteOp = "delete"
  /\ activeNoteId # NoNote
  /\ Len(travelNotes) = 1
  /\ travelNotes[1].id = activeNoteId

\* C37: a pending auto-save never crosses notes: when the callback of a timer
\* handed out while note A was open runs after A was deleted or after another
\* note was opened, no note appears or disappears and the title and the
\* content of every note stay as they were.
C37_AutoSaveStaysHome ==
  [][\A handle \in timers :
       autoSaveFires(handle) /\ timerNote[handle] # activeNoteId
       => /\ Len(travelNotes') = Len(travelNotes)
          /\ \A i \in 1..Len(travelNotes) :
               /\ travelNotes'[i].id = travelNotes[i].id
               /\ travelNotes'[i].title = travelNotes[i].title
               /\ travelNotes'[i].content = travelNotes[i].content]_vars

\* the callback of the timer started by typing into one note has run, and
\* saved, while another note was open
C37_Witness ==
  /\ noteOp = "autosave"
  /\ autoSaveTimer \in DOMAIN timerNote
  /\ autoSaveTimer \notin timers
  /\ timerNote[autoSaveTimer] # activeNoteId
  /\ timerNote[autoSaveTimer] \in NoteIds(travelNotes)

\* C32: in the ChatManager a reply is stored in the chat that was open when
\* its message was sent, not in the chat open when it arrives: after the
\* reply of a message sent from a chat that is still stored, that chat ends
\* with the reply and the messages of every other chat are as they were.
C32_ReplyToSendingChat ==
  [][\A r \in mgrPending :
       ChatManager_replyArrives(r) /\ r.chat \in StoredIds(state_savedChats)
       => /\ \E i \in 1..Len(state_savedChats') :
               /\ state_savedChats'[i].id = r.chat
               /\ state_savedChats'[i].messages # <<>>
               /\ Last(state_savedChats'[i].messages).role = "assistant"
          /\ \A i \in 1..Len(state_savedChats') :
               state_savedChats'[i].id # r.chat
               => state_savedChats'[i].messages =
                    state_savedChats[findIndex(state_savedChats,
                                               state_savedChats'[i].id)].messages]_vars

\* C39: a planner option added with category transport, hotel, restaurant or
\* activity is stored as a card of category transports, hotels, restaurants
\* or activities with cardType plane, hotel, restaurant or activity; a
\* transport option gets cardType plane whatever its own type.
C39_OptionCategory ==
  [][\A opt \in PlannerOptions :
       /\ addToTravelNote(opt)
       /\ opt.category \in {"transport", "hotel", "restaurant", "activity"}
       => /\ nextCardId \in CardIdsOf(travelNotes')
          /\ \A i \in 1..Len(travelNotes') :
               \A k \in 1..Len(travelNotes'[i].cards) :
                 travelNotes'[i].cards[k].id = nextCardId
                 => /\ travelNotes'[i].cards[k].category =
                         (IF opt.category = "activity" THEN "activities"
                          ELSE opt.category \o "s")
                    /\ travelNotes'[i].cards[k].cardType =
                         (IF opt.category = "transport" THEN "plane"
                          ELSE opt.category)]_vars

\* a transport option and a hotel option are stored in one note
C39_Witness ==
  /\ noteOp = "add-active"
  /\ \E i \in 1..Len(travelNotes) :
       /\ Len(travelNotes[i].cards) = 2
       /\ travelNotes[i].cards[1].data.type = "transport"
       /\ travelNotes[i].cards[1].cardType = "plane"
       /\ travelNotes[i].cards[2].data.type = "hotel"
       /\ travelNotes[i].cards[2].category = "hotels"

\* the data field of a parsed card, NoDataField when it has none
NoDataField == [kind |-> "missing", text |-> <<>>]
DataField(card) == IF DataKey \in DOMAIN card THEN card[DataKey] ELSE NoDataField

====
